---- MODULE Spec2Model ----
(***************************************************************************)
(* Model of the lock-free ring queue (include/mpmc_queue.hpp) and of the   *)
(* asynchronous writer built on it (include/async_logger.hpp).             *)
(*                                                                         *)
(* Every atomic access of try_enqueue / try_dequeue is one step of the     *)
(* calling thread, so that every interleaving of producers and consumers   *)
(* is explored.                                                            *)
(***************************************************************************)
EXTENDS Integers, Naturals, Sequences, FiniteSets, TLC

(* ------------------------------ bounds --------------------------------- *)

\* Capacity is 2^CapLog2 (the template parameter must be a power of two).
CapLog2 == 1

\* Number of try_enqueue calls (= distinct values) a run may start.
MaxItems == 3

\* Number of start() calls a run of the writer may make.
MaxStarts == 2

\* ALIGNMENT is 2^AlignLog2 (4096 in the source, scaled down with the buffer).
AlignLog2 == 5

\* BUFFER_SIZE is BufferBlocks * ALIGNMENT (1024 blocks in the source).
BufferBlocks == 3

\* size_t has 2^WordBits values (2^64 in the source).
WordBits == 4

\* A byte has 2^ByteBits values (2^8 in the source).
ByteBits == 2

\* Frames of 0 .. MaxFrameLen bytes are decoded (the widest variant has 46).
MaxFrameLen == 47

\* The initial mapping is 2^MmapInitLog2 bytes (2^30 in the source).
MmapInitLog2 == 5

(* ----------------------------- constants ------------------------------- *)

Capacity == 2 ^ CapLog2

ALIGNMENT == 2 ^ AlignLog2

BUFFER_SIZE == BufferBlocks * ALIGNMENT

InitialMmapSize == 2 ^ MmapInitLog2

NoItem == 0

Slots == 0 .. (Capacity - 1)

Positions == 0 .. (MaxItems - 1)

Producers == { <<"producer", 1>>, <<"producer", 2>> }

Consumers == { <<"consumer", 1>>, <<"consumer", 2>> }

Worker == <<"worker", 1>>

\* A thread that calls size() / empty() while the others run.
Observers == { <<"observer", 1>> }

\* Threads that call start() and stop() on one AsyncLogger at the same time.
Admins == { <<"admin", 1>>, <<"admin", 2>> }

Threads == Producers \cup Consumers \cup { Worker } \cup Observers \cup Admins

VARIABLES
  head,        \* head_      : next enqueue position
  tail,        \* tail_      : next dequeue position
  sequences,   \* sequences_ : per-slot sequence number
  buffer,      \* buffer_    : per-slot payload
  pc,          \* per thread : where the thread is in its current call
  pos,         \* per thread : local `pos`
  item,        \* per thread : the `item` argument (producer) / out parameter (consumer)
  ret,         \* per thread : value returned by the call that just ended
  nextVal,     \* number of values handed to try_enqueue so far
  enqOrder,    \* history: enqOrder[p+1] is the item of the producer that claimed position p
  deqAt,       \* history: deqAt[p] is the item copied out by the consumer that claimed position p
  lin,         \* history: per thread, "the queue was full (resp. empty) at some moment of this call"
  write_mode,  \* write_mode_
  running,     \* running_
  sink,        \* fd_, mmap_ptr_, mmap_size_, write_buffer_, buffer_offset_, total_written_, and the file
  wphase,      \* which of the two loops of worker_loop the worker is in
  adminPc,     \* where the thread calling start() / stop() is
  starts,      \* number of start() calls that opened the sink and launched the worker
  promised,    \* history: << the records whose log() had returned true when stop() was last called >>
  io,          \* environment: the outcomes the system calls of the writer can have in this
               \* run, and "spurious" where compare_exchange_weak can fail spuriously
  input,       \* the argument of the protocol function under check (frame, symbol, value)
  output,      \* what the function returned
  calls        \* number of times the function has been applied

qvars == << head, tail, sequences, buffer >>

tvars == << pc, pos, item, ret >>

hvars == << nextVal, enqOrder, deqAt, lin >>

logvars == << write_mode, running, sink, wphase, adminPc, starts, promised, io >>

\* The argument, the result and the number of applications of the protocol
\* function under check.
pvars == << input, output, calls >>

vars == << qvars, tvars, hvars, logvars, pvars >>

(* ------------------------------ helpers -------------------------------- *)

\* a & b on naturals, bit by bit.
RECURSIVE BitAnd(_, _)
BitAnd(a, b) ==
  IF a = 0 \/ b = 0 THEN 0
  ELSE (IF a % 2 = 1 /\ b % 2 = 1 THEN 1 ELSE 0) + 2 * BitAnd(a \div 2, b \div 2)

\* size_t index = pos & (Capacity - 1);
Index(p) == BitAnd(p, Capacity - 1)

\* A value stored in a size_t (pos + 1, pos + Capacity wrap around).
SizeT(x) == x % (2 ^ WordBits)

\* static_cast<intptr_t>(x)
IntPtr(x) == IF x >= 2 ^ (WordBits - 1) THEN x - 2 ^ WordBits ELSE x

\* intptr_t diff = static_cast<intptr_t>(seq) - static_cast<intptr_t>(pos);
\* the values diff can have in the tests that follow. When the difference
\* does not fit an intptr_t the subtraction overflows (undefined behaviour):
\* the build either wraps it around or tests the sign of the exact
\* difference.
Diffs(seq, p) ==
  LET d == IntPtr(seq) - IntPtr(p)
  IN { d, IntPtr(SizeT(d)) }

EnqInCall == { "e_seq", "e_cas", "e_write", "e_publish" }

DeqInCall == { "d_seq", "d_cas", "d_read", "d_publish" }

\* size() between its two loads.
SizeInCall == { "s_tail" }

\* A try_enqueue or a try_dequeue has been called and has not returned.
Busy == \E t \in Threads : pc[t] \in EnqInCall \cup DeqInCall

\* Producers that own a claimed position whose sequence number is not yet published.
EnqInFlight == { t \in Threads : pc[t] \in { "e_write", "e_publish" } }

\* Consumers that own a claimed position whose slot is not yet released.
DeqInFlight == { t \in Threads : pc[t] \in { "d_read", "d_publish" } }

\* Position p was claimed by a producer whose try_enqueue has returned true.
Published(p) == p < head /\ ~ \E t \in EnqInFlight : pos[t] = p

EnqCompleted == head - Cardinality(EnqInFlight)

DeqCompleted == tail - Cardinality(DeqInFlight)

\* "Full": C items are enqueued and not dequeued, counting either by claims
\* (head - tail) or by completed calls.
QFull == (head - tail = Capacity) \/ (EnqCompleted - DeqCompleted = Capacity)

\* "Empty": no item whose try_enqueue has returned true is still waiting to
\* be claimed by a consumer.
QEmpty == \A p \in tail .. (head - 1) : ~ Published(p)

\* History bookkeeping shared by every step (reads the primed state).
LinUpdate ==
  IF DOMAIN lin = {} THEN lin' = lin ELSE
  lin' = [ t \in Threads |->
            IF pc'[t] \in EnqInCall
              THEN (pc[t] \in EnqInCall /\ lin[t]) \/ QFull'
            ELSE IF pc'[t] \in DeqInCall
              THEN (pc[t] \in DeqInCall /\ lin[t]) \/ QEmpty'
            ELSE IF pc'[t] \in SizeInCall
              THEN (pc[t] \in SizeInCall /\ lin[t]) \/ Busy'
            ELSE IF pc'[t] = "s_ret" THEN lin[t] \/ Busy'
            ELSE IF pc'[t] \in { "e_ret", "d_ret" } THEN lin[t]
            ELSE FALSE ]

(* --------------------------- MPMCQueue::MPMCQueue ---------------------- *)

QueueInit ==
  /\ head = 0
  /\ tail = 0
  /\ sequences = [ i \in Slots |-> i ]
  /\ buffer = [ i \in Slots |-> NoItem ]

(* --------------------------- try_enqueue ------------------------------- *)

\* size_t pos = head_.load(relaxed);   (entry of the call with a fresh value)
\* With "endless" among the conditions of the run the producers go on
\* logging without end: the first record is logged over and over, and the
\* histories are not kept.
EnqCall(t) ==
  /\ pc[t] = "idle"
  /\ t \in Producers
  /\ nextVal < MaxItems \/ "endless" \in io
  /\ nextVal' = IF "endless" \in io THEN 1 ELSE nextVal + 1
  /\ item' = [item EXCEPT ![t] = nextVal']
  /\ pos' = [pos EXCEPT ![t] = head]
  /\ pc' = [pc EXCEPT ![t] = "e_seq"]
  /\ UNCHANGED << head, tail, sequences, buffer, ret, enqOrder, deqAt >>
  /\ UNCHANGED << logvars, pvars >>
  /\ LinUpdate

\* Mutant of EnqLoadSeq: the full test is lost (diff <= 0 goes on to the
\* compare-and-exchange).
EnqLoadSeqNoFullTest(t) ==
  /\ pc[t] = "e_seq"
  /\ LET diff == sequences[Index(pos[t])] - pos[t] IN
       /\ pc' = [pc EXCEPT ![t] = IF diff <= 0 THEN "e_cas" ELSE "e_seq"]
       /\ pos' = [pos EXCEPT ![t] = IF diff > 0 THEN head ELSE @]
  /\ UNCHANGED << head, tail, sequences, buffer, item, ret, nextVal, enqOrder, deqAt >>
  /\ UNCHANGED << logvars, pvars >>
  /\ LinUpdate

\* seq = sequences_[index].load(acquire); diff = seq - pos; the three branches.
\* In the branch diff > 0 the reload pos = head_.load() is taken in the same
\* step: sequence numbers only grow, so diff > 0 still holds at the reload.
EnqLoadSeq(t) ==
  /\ pc[t] = "e_seq"
  /\ \E diff \in Diffs(sequences[Index(pos[t])], pos[t]) :
       /\ pc' = [pc EXCEPT ![t] = IF diff = 0 THEN "e_cas"
                                  ELSE IF diff < 0 THEN "e_ret" ELSE "e_seq"]
       /\ ret' = [ret EXCEPT ![t] = IF diff < 0 THEN "false" ELSE @]
       /\ pos' = [pos EXCEPT ![t] = IF diff > 0 THEN head ELSE @]
  /\ UNCHANGED << head, tail, sequences, buffer, item, nextVal, enqOrder, deqAt >>
  /\ UNCHANGED << logvars, pvars >>
  /\ LinUpdate

\* Mutant of EnqCasOk: head is stored without being compared with pos.
EnqCasOkNoCompare(t) ==
  /\ pc[t] = "e_cas"
  /\ head' = pos[t] + 1
  /\ enqOrder' = Append(enqOrder, item[t])
  /\ pc' = [pc EXCEPT ![t] = "e_write"]
  /\ UNCHANGED << tail, sequences, buffer, pos, item, ret, nextVal, deqAt >>
  /\ UNCHANGED << logvars, pvars >>
  /\ LinUpdate

\* head_.compare_exchange_weak(pos, pos + 1, relaxed) succeeds.
EnqCasOk(t) ==
  /\ pc[t] = "e_cas"
  /\ head = pos[t]
  /\ head' = SizeT(pos[t] + 1)
  /\ enqOrder' = IF "endless" \in io THEN enqOrder ELSE Append(enqOrder, item[t])
  /\ pc' = [pc EXCEPT ![t] = "e_write"]
  /\ UNCHANGED << tail, sequences, buffer, pos, item, ret, nextVal, deqAt >>
  /\ UNCHANGED << logvars, pvars >>
  /\ LinUpdate

\* Mutant of EnqCasFail: the exchange fails although head equals pos.
EnqCasFailSpurious(t) ==
  /\ pc[t] = "e_cas"
  /\ pos' = [pos EXCEPT ![t] = head]
  /\ pc' = [pc EXCEPT ![t] = "e_seq"]
  /\ UNCHANGED << head, tail, sequences, buffer, item, ret, nextVal, enqOrder, deqAt >>
  /\ UNCHANGED << logvars, pvars >>
  /\ LinUpdate

\* The exchange fails: head differs (pos receives the current head), or, where
\* the target's compare_exchange_weak can do so, it fails spuriously (pos
\* keeps its value); the loop starts over.
EnqCasFail(t) ==
  /\ pc[t] = "e_cas"
  /\ head # pos[t] \/ "spurious" \in io
  /\ pos' = [pos EXCEPT ![t] = head]
  /\ pc' = [pc EXCEPT ![t] = "e_seq"]
  /\ UNCHANGED << head, tail, sequences, buffer, item, ret, nextVal, enqOrder, deqAt >>
  /\ UNCHANGED << logvars, pvars >>
  /\ LinUpdate

\* buffer_[index].value = item;
EnqWrite(t) ==
  /\ pc[t] = "e_write"
  /\ buffer' = [buffer EXCEPT ![Index(pos[t])] = item[t]]
  /\ pc' = [pc EXCEPT ![t] = "e_publish"]
  /\ UNCHANGED << head, tail, sequences, pos, item, ret, nextVal, enqOrder, deqAt >>
  /\ UNCHANGED << logvars, pvars >>
  /\ LinUpdate

\* Mutant of EnqPublish: the producer stores the consumer's sequence number,
\* pos + Capacity.
EnqPublishNextLap(t) ==
  /\ pc[t] = "e_publish"
  /\ sequences' = [sequences EXCEPT ![Index(pos[t])] = pos[t] + Capacity]
  /\ ret' = [ret EXCEPT ![t] = "true"]
  /\ pc' = [pc EXCEPT ![t] = "e_ret"]
  /\ UNCHANGED << head, tail, buffer, pos, item, nextVal, enqOrder, deqAt >>
  /\ UNCHANGED << logvars, pvars >>
  /\ LinUpdate

\* sequences_[index].store(pos + 1, release); return true;
EnqPublish(t) ==
  /\ pc[t] = "e_publish"
  /\ sequences' = [sequences EXCEPT ![Index(pos[t])] = SizeT(pos[t] + 1)]
  /\ ret' = [ret EXCEPT ![t] = "true"]
  /\ pc' = [pc EXCEPT ![t] = "e_ret"]
  /\ UNCHANGED << head, tail, buffer, pos, item, nextVal, enqOrder, deqAt >>
  /\ UNCHANGED << logvars, pvars >>
  /\ LinUpdate

(* --------------------------- try_dequeue ------------------------------- *)

\* size_t pos = tail_.load(relaxed);
DeqCall(t) ==
  /\ pc[t] = "idle"
  /\ t \in Consumers
  /\ pos' = [pos EXCEPT ![t] = tail]
  /\ pc' = [pc EXCEPT ![t] = "d_seq"]
  /\ UNCHANGED << head, tail, sequences, buffer, item, ret, nextVal, enqOrder, deqAt >>
  /\ UNCHANGED << logvars, pvars >>
  /\ LinUpdate

\* Mutant of DeqLoadSeq: the consumer compares with pos, as the producer does.
DeqLoadSeqProducerTarget(t) ==
  /\ pc[t] = "d_seq"
  /\ LET diff == sequences[Index(pos[t])] - pos[t] IN
       /\ pc' = [pc EXCEPT ![t] = IF diff = 0 THEN "d_cas"
                                  ELSE IF diff < 0 THEN "d_ret" ELSE "d_seq"]
       /\ ret' = [ret EXCEPT ![t] = IF diff < 0 THEN "false" ELSE @]
       /\ pos' = [pos EXCEPT ![t] = IF diff > 0 THEN tail ELSE @]
  /\ UNCHANGED << head, tail, sequences, buffer, item, nextVal, enqOrder, deqAt >>
  /\ UNCHANGED << logvars, pvars >>
  /\ LinUpdate

\* Mutant of DeqLoadSeq: on "empty" the slot is copied to the out parameter.
DeqLoadSeqCopiesOnEmpty(t) ==
  /\ pc[t] = "d_seq"
  /\ LET diff == sequences[Index(pos[t])] - (pos[t] + 1) IN
       /\ pc' = [pc EXCEPT ![t] = IF diff = 0 THEN "d_cas"
                                  ELSE IF diff < 0 THEN "d_ret" ELSE "d_seq"]
       /\ ret' = [ret EXCEPT ![t] = IF diff < 0 THEN "false" ELSE @]
       /\ pos' = [pos EXCEPT ![t] = IF diff > 0 THEN tail ELSE @]
       /\ item' = [item EXCEPT ![t] = IF diff < 0 THEN buffer[Index(pos[t])] ELSE @]
  /\ UNCHANGED << head, tail, sequences, buffer, nextVal, enqOrder, deqAt >>
  /\ UNCHANGED << logvars, pvars >>
  /\ LinUpdate

\* seq = sequences_[index].load(acquire); diff = seq - (pos + 1); the three
\* branches (diff > 0 reloads tail in the same step, as in EnqLoadSeq).
DeqLoadSeq(t) ==
  /\ pc[t] = "d_seq"
  /\ \E diff \in Diffs(sequences[Index(pos[t])], SizeT(pos[t] + 1)) :
       /\ pc' = [pc EXCEPT ![t] = IF diff = 0 THEN "d_cas"
                                  ELSE IF diff < 0 THEN "d_ret" ELSE "d_seq"]
       /\ ret' = [ret EXCEPT ![t] = IF diff < 0 THEN "false" ELSE @]
       /\ pos' = [pos EXCEPT ![t] = IF diff > 0 THEN tail ELSE @]
  /\ UNCHANGED << head, tail, sequences, buffer, item, nextVal, enqOrder, deqAt >>
  /\ UNCHANGED << logvars, pvars >>
  /\ LinUpdate

\* Mutant of DeqCasOk: tail is stored without being compared with pos.
DeqCasOkNoCompare(t) ==
  /\ pc[t] = "d_cas"
  /\ tail' = pos[t] + 1
  /\ pc' = [pc EXCEPT ![t] = "d_read"]
  /\ UNCHANGED << head, sequences, buffer, pos, item, ret, nextVal, enqOrder, deqAt >>
  /\ UNCHANGED << logvars, pvars >>
  /\ LinUpdate

\* tail_.compare_exchange_weak(pos, pos + 1, relaxed) succeeds.
DeqCasOk(t) ==
  /\ pc[t] = "d_cas"
  /\ tail = pos[t]
  /\ tail' = SizeT(pos[t] + 1)
  /\ pc' = [pc EXCEPT ![t] = "d_read"]
  /\ UNCHANGED << head, sequences, buffer, pos, item, ret, nextVal, enqOrder, deqAt >>
  /\ UNCHANGED << logvars, pvars >>
  /\ LinUpdate

\* The exchange fails (tail differs, or spuriously); the loop starts over.
DeqCasFail(t) ==
  /\ pc[t] = "d_cas"
  /\ tail # pos[t] \/ "spurious" \in io
  /\ pos' = [pos EXCEPT ![t] = tail]
  /\ pc' = [pc EXCEPT ![t] = "d_seq"]
  /\ UNCHANGED << head, tail, sequences, buffer, item, ret, nextVal, enqOrder, deqAt >>
  /\ UNCHANGED << logvars, pvars >>
  /\ LinUpdate

\* item = buffer_[index].value;
DeqRead(t) ==
  /\ pc[t] = "d_read"
  /\ item' = [item EXCEPT ![t] = buffer[Index(pos[t])]]
  /\ deqAt' = IF "endless" \in io THEN deqAt
                ELSE [deqAt EXCEPT ![pos[t]] = buffer[Index(pos[t])]]
  /\ pc' = [pc EXCEPT ![t] = "d_publish"]
  /\ UNCHANGED << head, tail, sequences, buffer, pos, ret, nextVal, enqOrder >>
  /\ UNCHANGED << logvars, pvars >>
  /\ LinUpdate

\* Mutant of DeqPublish: the slot is released for the lap that just ended
\* (pos instead of pos + Capacity).
DeqPublishSameLap(t) ==
  /\ pc[t] = "d_publish"
  /\ sequences' = [sequences EXCEPT ![Index(pos[t])] = pos[t]]
  /\ ret' = [ret EXCEPT ![t] = "true"]
  /\ pc' = [pc EXCEPT ![t] = "d_ret"]
  /\ UNCHANGED << head, tail, buffer, pos, item, nextVal, enqOrder, deqAt >>
  /\ UNCHANGED << logvars, pvars >>
  /\ LinUpdate

\* sequences_[index].store(pos + Capacity, release); return true;
DeqPublish(t) ==
  /\ pc[t] = "d_publish"
  /\ sequences' = [sequences EXCEPT ![Index(pos[t])] = SizeT(pos[t] + Capacity)]
  /\ ret' = [ret EXCEPT ![t] = "true"]
  /\ pc' = [pc EXCEPT ![t] = "d_ret"]
  /\ UNCHANGED << head, tail, buffer, pos, item, nextVal, enqOrder, deqAt >>
  /\ UNCHANGED << logvars, pvars >>
  /\ LinUpdate

(* ------------------------ MPMCQueue::size / empty ---------------------- *)

\* size_t head = head_.value.load(acquire);
SizeCall(t) ==
  /\ pc[t] = "idle"
  /\ t \in Observers
  /\ pos' = [pos EXCEPT ![t] = head]
  /\ pc' = [pc EXCEPT ![t] = "s_tail"]
  /\ UNCHANGED << qvars, item, ret, nextVal, enqOrder, deqAt >>
  /\ UNCHANGED << logvars, pvars >>
  /\ LinUpdate

\* Mutant of SizeLoadTail: the difference is taken the other way round.
SizeLoadTailSwapped(t) ==
  /\ pc[t] = "s_tail"
  /\ item' = [item EXCEPT ![t] = (tail - pos[t]) % (2 ^ WordBits)]
  /\ ret' = [ret EXCEPT ![t] =
               IF (tail - pos[t]) % (2 ^ WordBits) = 0 THEN "true" ELSE "false"]
  /\ pc' = [pc EXCEPT ![t] = "s_ret"]
  /\ UNCHANGED << qvars, pos, nextVal, enqOrder, deqAt >>
  /\ UNCHANGED << logvars, pvars >>
  /\ LinUpdate

\* size_t tail = tail_.value.load(acquire); return head - tail;  (size_t
\* arithmetic). item[t] is the value size() returns, ret[t] what empty()
\* makes of it (return size() == 0).
SizeLoadTail(t) ==
  /\ pc[t] = "s_tail"
  /\ item' = [item EXCEPT ![t] = (pos[t] - tail) % (2 ^ WordBits)]
  /\ ret' = [ret EXCEPT ![t] =
               IF (pos[t] - tail) % (2 ^ WordBits) = 0 THEN "true" ELSE "false"]
  /\ pc' = [pc EXCEPT ![t] = "s_ret"]
  /\ UNCHANGED << qvars, pos, nextVal, enqOrder, deqAt >>
  /\ UNCHANGED << logvars, pvars >>
  /\ LinUpdate

\* The caller takes the result.
SizeReturn(t) ==
  /\ pc[t] = "s_ret"
  /\ pc' = [pc EXCEPT ![t] = "idle"]
  /\ ret' = [ret EXCEPT ![t] = "none"]
  /\ item' = [item EXCEPT ![t] = NoItem]
  /\ pos' = [pos EXCEPT ![t] = 0]
  /\ UNCHANGED << qvars, nextVal, enqOrder, deqAt >>
  /\ UNCHANGED << logvars, pvars >>
  /\ LinUpdate

(* ------------------ callers of the queue (test harness) ---------------- *)

\* The producer loop of test_mpmc_queue_threaded takes the result and goes on.
ProducerReturn(t) ==
  /\ pc[t] = "e_ret"
  /\ t \in Producers
  /\ pc' = [pc EXCEPT ![t] = "idle"]
  /\ ret' = [ret EXCEPT ![t] = "none"]
  /\ item' = [item EXCEPT ![t] = NoItem]
  /\ pos' = [pos EXCEPT ![t] = 0]
  /\ UNCHANGED << head, tail, sequences, buffer, nextVal, enqOrder, deqAt >>
  /\ UNCHANGED << logvars, pvars >>
  /\ LinUpdate

\* The consumer loop of test_mpmc_queue_threaded: `value` is compared with
\* the expected count and is dead afterwards.
ConsumerReturn(t) ==
  /\ pc[t] = "d_ret"
  /\ t \in Consumers
  /\ pc' = [pc EXCEPT ![t] = "idle"]
  /\ ret' = [ret EXCEPT ![t] = "none"]
  /\ pos' = [pos EXCEPT ![t] = 0]
  /\ item' = [item EXCEPT ![t] = NoItem]
  /\ UNCHANGED << head, tail, sequences, buffer, nextVal, enqOrder, deqAt >>
  /\ UNCHANGED << logvars, pvars >>
  /\ LinUpdate


(* ------------------------- itch_protocol.hpp --------------------------- *)

\* sizeof(ITCHMessageHeader), packed: message_type, stock_locate,
\* tracking_number, timestamp.
SizeofHeader == 1 + 2 + 2 + 8

\* sizeof of each packed variant struct, by MessageType.
SizeofMessage(type) ==
  CASE type = "A" -> SizeofHeader + 8 + 1 + 4 + 8 + 4
    [] type = "E" -> SizeofHeader + 8 + 4 + 8
    [] type = "C" -> SizeofHeader + 8 + 4 + 8 + 1 + 4
    [] type = "X" -> SizeofHeader + 8 + 4
    [] type = "D" -> SizeofHeader + 8
    [] type = "U" -> SizeofHeader + 8 + 8 + 4 + 4
    [] type = "P" -> SizeofHeader + 8 + 1 + 4 + 8 + 4 + 8
    [] type = "S" -> SizeofHeader + 1
    [] type = "R" -> SizeofHeader + 8 + 1 + 1 + 4 + 1 + 1 + 2 + 1 + 1 + 1 + 1 + 1 + 4 + 1

SupportedTypes == { "A", "E", "C", "X", "D", "U", "P", "S", "R" }

\* msg.type of the record a producer logs: the generator of demo_async_logging
\* alternates Add Order and Trade.
\* With "unsupported" among the conditions of the run, the caller of log()
\* builds the second record itself, with type = MessageType::STOCK_TRADING_ACTION,
\* a tag for which the writer has no case.
MsgType(v) ==
  IF "unsupported" \in io /\ v = 2 THEN "H"
  ELSE IF v % 2 = 1 THEN "A" ELSE "P"

(* ------------------------- byte order (x86-64) ------------------------- *)

Radix == 2 ^ ByteBits

\* The unsigned value a little-endian host reads from the bytes b (the
\* reinterpret_cast of the frame to a packed struct, and a struct member).
RECURSIVE LoadLE(_)
LoadLE(b) == IF Len(b) = 0 THEN 0 ELSE b[1] + Radix * LoadLE(SubSeq(b, 2, Len(b)))

\* The n bytes a little-endian host stores for the unsigned value x.
RECURSIVE StoreLE(_, _)
StoreLE(x, n) == IF n = 0 THEN << >> ELSE << x % Radix >> \o StoreLE(x \div Radix, n - 1)

\* __builtin_bswap16/32/64 on an n-byte unsigned value: the lowest byte
\* becomes the highest, and so on.
RECURSIVE Bswap(_, _)
Bswap(x, n) ==
  IF n = 0 THEN 0 ELSE (x % Radix) * Radix ^ (n - 1) + Bswap(x \div Radix, n - 1)

ntoh16(x) == Bswap(x % Radix ^ 2, 2)

\* Mutant of ntoh32: the two 16-bit halves are exchanged, their bytes are not.
ntoh32_halves(x) ==
  LET v == x % Radix ^ 4 IN (v % Radix ^ 2) * Radix ^ 2 + v \div Radix ^ 2

ntoh32(x) == Bswap(x % Radix ^ 4, 4)

ntoh64(x) == Bswap(x % Radix ^ 8, 8)

(* ----------------------------- ITCH structs ---------------------------- *)

\* enum class MessageType
MessageTypes ==
  { "S", "R", "H", "Y", "L", "V", "W", "K", "J", "h", "A",
    "F", "E", "C", "X", "D", "U", "P", "Q", "B", "I", "N" }

\* sizeof of a member type.
TypeWidth(ty) ==
  CASE ty = "uint8_t" -> 1
    [] ty = "uint16_t" -> 2
    [] ty = "uint32_t" -> 4
    [] ty = "uint64_t" -> 8
    [] ty = "char[8]" -> 8
    [] ty = "char[2]" -> 2

\* struct ITCHMessageHeader, as the first member `header` of every variant.
HeaderFields ==
  << << "header.message_type", "uint8_t" >>,
     << "header.stock_locate", "uint16_t" >>,
     << "header.tracking_number", "uint16_t" >>,
     << "header.timestamp", "uint64_t" >> >>

\* The members of each packed variant struct, in declaration order.
StructFields(type) ==
  CASE type = "A" -> HeaderFields \o
         << << "order_reference_number", "uint64_t" >>,
            << "buy_sell_indicator", "uint8_t" >>,
            << "shares", "uint32_t" >>,
            << "stock", "char[8]" >>,
            << "price", "uint32_t" >> >>
    [] type = "E" -> HeaderFields \o
         << << "order_reference_number", "uint64_t" >>,
            << "executed_shares", "uint32_t" >>,
            << "match_number", "uint64_t" >> >>
    [] type = "C" -> HeaderFields \o
         << << "order_reference_number", "uint64_t" >>,
            << "executed_shares", "uint32_t" >>,
            << "match_number", "uint64_t" >>,
            << "printable", "uint8_t" >>,
            << "execution_price", "uint32_t" >> >>
    [] type = "X" -> HeaderFields \o
         << << "order_reference_number", "uint64_t" >>,
            << "cancelled_shares", "uint32_t" >> >>
    [] type = "D" -> HeaderFields \o
         << << "order_reference_number", "uint64_t" >> >>
    [] type = "U" -> HeaderFields \o
         << << "original_order_reference_number", "uint64_t" >>,
            << "new_order_reference_number", "uint64_t" >>,
            << "shares", "uint32_t" >>,
            << "price", "uint32_t" >> >>
    [] type = "P" -> HeaderFields \o
         << << "order_reference_number", "uint64_t" >>,
            << "buy_sell_indicator", "uint8_t" >>,
            << "shares", "uint32_t" >>,
            << "stock", "char[8]" >>,
            << "price", "uint32_t" >>,
            << "match_number", "uint64_t" >> >>
    [] type = "S" -> HeaderFields \o
         << << "event_code", "uint8_t" >> >>
    [] type = "R" -> HeaderFields \o
         << << "stock", "char[8]" >>,
            << "market_category", "uint8_t" >>,
            << "financial_status_indicator", "uint8_t" >>,
            << "round_lot_size", "uint32_t" >>,
            << "round_lots_only", "uint8_t" >>,
            << "issue_classification", "uint8_t" >>,
            << "issue_sub_type", "char[2]" >>,
            << "authenticity", "uint8_t" >>,
            << "short_sale_threshold_indicator", "uint8_t" >>,
            << "ipo_flag", "uint8_t" >>,
            << "luld_reference_price_tier", "uint8_t" >>,
            << "etp_flag", "uint8_t" >>,
            << "etp_leverage_factor", "uint32_t" >>,
            << "inverse_indicator", "uint8_t" >> >>

\* With __attribute__((packed)) member k starts where member k-1 ends.
RECURSIVE OffsetOf(_, _)
OffsetOf(fields, k) ==
  IF k = 1 THEN 0 ELSE OffsetOf(fields, k - 1) + TypeWidth(fields[k - 1][2])

\* The bytes of member k in the image b of a struct with these members.
FieldBytes(b, fields, k) ==
  SubSeq(b, OffsetOf(fields, k) + 1, OffsetOf(fields, k) + TypeWidth(fields[k][2]))

\* The member of the union of ParsedMessage that a reader takes for a type
\* (the switch of serialize_message).
UnionMember(type) ==
  CASE type = "A" -> "add_order"
    [] type = "E" -> "execute_order"
    [] type = "C" -> "execute_with_price"
    [] type = "X" -> "order_cancel"
    [] type = "D" -> "order_delete"
    [] type = "U" -> "order_replace"
    [] type = "P" -> "trade"
    [] type = "S" -> "system_event"
    [] type = "R" -> "stock_directory"

\* get_stock_symbol: len = 8; while (len > 0 && stock[len - 1] == ' ') --len;
RECURSIVE TrimmedLength(_, _)
TrimmedLength(stock, len) ==
  IF len > 0 /\ stock[len] = " " THEN TrimmedLength(stock, len - 1) ELSE len

\* Mutant of get_stock_symbol: the symbol ends at the first space.
get_stock_symbol_first_space(stock) ==
  SubSeq(stock, 1, IF \E k \in 1 .. 8 : stock[k] = " "
                     THEN (CHOOSE k \in 1 .. 8 :
                             stock[k] = " " /\ \A j \in 1 .. (k - 1) : stock[j] # " ") - 1
                     ELSE 8)

\* std::string_view get_stock_symbol(const std::array<char, 8>& stock)
get_stock_symbol(stock) == SubSeq(stock, 1, TrimmedLength(stock, 8))

(* ------------------------------ ITCHParser ----------------------------- *)

\* The four header assignments every parse_* helper begins with.
HeaderConv ==
  << << "header.message_type", "copy" >>,
     << "header.stock_locate", "ntoh16" >>,
     << "header.tracking_number", "ntoh16" >>,
     << "header.timestamp", "ntoh64" >> >>

\* Each parse_* helper: the union member it fills, the struct it reads the
\* frame as, and its assignments (member, conversion).
parse_add_order ==
  [ member |-> "add_order", struct |-> "A",
    conv |-> HeaderConv \o
      << << "order_reference_number", "ntoh64" >>,
         << "buy_sell_indicator", "copy" >>,
         << "shares", "ntoh32" >>,
         << "stock", "copy" >>,
         << "price", "ntoh32" >> >> ]

parse_execute_order ==
  [ member |-> "execute_order", struct |-> "E",
    conv |-> HeaderConv \o
      << << "order_reference_number", "ntoh64" >>,
         << "executed_shares", "ntoh32" >>,
         << "match_number", "ntoh64" >> >> ]

parse_execute_with_price ==
  [ member |-> "execute_with_price", struct |-> "C",
    conv |-> HeaderConv \o
      << << "order_reference_number", "ntoh64" >>,
         << "executed_shares", "ntoh32" >>,
         << "match_number", "ntoh64" >>,
         << "printable", "copy" >>,
         << "execution_price", "ntoh32" >> >> ]

parse_order_cancel ==
  [ member |-> "order_cancel", struct |-> "X",
    conv |-> HeaderConv \o
      << << "order_reference_number", "ntoh64" >>,
         << "cancelled_shares", "ntoh32" >> >> ]

parse_order_delete ==
  [ member |-> "order_delete", struct |-> "D",
    conv |-> HeaderConv \o
      << << "order_reference_number", "ntoh64" >> >> ]

parse_order_replace ==
  [ member |-> "order_replace", struct |-> "U",
    conv |-> HeaderConv \o
      << << "original_order_reference_number", "ntoh64" >>,
         << "new_order_reference_number", "ntoh64" >>,
         << "shares", "ntoh32" >>,
         << "price", "ntoh32" >> >> ]

\* Mutant of parse_trade: match_number is copied without the byte swap.
parse_trade_match_copied ==
  [ member |-> "trade", struct |-> "P",
    conv |-> HeaderConv \o
      << << "order_reference_number", "ntoh64" >>,
         << "buy_sell_indicator", "copy" >>,
         << "shares", "ntoh32" >>,
         << "stock", "copy" >>,
         << "price", "ntoh32" >>,
         << "match_number", "copy" >> >> ]

parse_trade ==
  [ member |-> "trade", struct |-> "P",
    conv |-> HeaderConv \o
      << << "order_reference_number", "ntoh64" >>,
         << "buy_sell_indicator", "copy" >>,
         << "shares", "ntoh32" >>,
         << "stock", "copy" >>,
         << "price", "ntoh32" >>,
         << "match_number", "ntoh64" >> >> ]

parse_system_event ==
  [ member |-> "system_event", struct |-> "S",
    conv |-> HeaderConv \o
      << << "event_code", "copy" >> >> ]

parse_stock_directory ==
  [ member |-> "stock_directory", struct |-> "R",
    conv |-> HeaderConv \o
      << << "stock", "copy" >>,
         << "market_category", "copy" >>,
         << "financial_status_indicator", "copy" >>,
         << "round_lot_size", "ntoh32" >>,
         << "round_lots_only", "copy" >>,
         << "issue_classification", "copy" >>,
         << "issue_sub_type", "copy" >>,
         << "authenticity", "copy" >>,
         << "short_sale_threshold_indicator", "copy" >>,
         << "ipo_flag", "copy" >>,
         << "luld_reference_price_tier", "copy" >>,
         << "etp_flag", "copy" >>,
         << "etp_leverage_factor", "ntoh32" >>,
         << "inverse_indicator", "copy" >> >> ]

\* The conversion a helper applies to a member; "none" if it never assigns it.
ConvOf(p, name) ==
  IF \E i \in 1 .. Len(p.conv) : p.conv[i][1] = name
    THEN p.conv[CHOOSE i \in 1 .. Len(p.conv) : p.conv[i][1] = name][2]
    ELSE "none"

\* msg.member = fn(wire_msg->member): the w bytes the member of the record
\* holds afterwards; a member that is never assigned stays indeterminate (-1).
Convert(fn, b, w) ==
  CASE fn = "copy" -> b
    [] fn = "ntoh16" -> StoreLE(ntoh16(LoadLE(b)), w)
    [] fn = "ntoh32" -> StoreLE(ntoh32(LoadLE(b)), w)
    [] fn = "ntoh64" -> StoreLE(ntoh64(LoadLE(b)), w)
    [] fn = "none" -> [ i \in 1 .. w |-> -1 ]

\* The image of the union member after helper p has run on the frame.
RECURSIVE MemberImage(_, _, _)
MemberImage(p, data, k) ==
  LET fields == StructFields(p.struct) IN
    IF k > Len(fields) THEN << >>
    ELSE Convert(ConvOf(p, fields[k][1]), FieldBytes(data, fields, k),
                 TypeWidth(fields[k][2]))
         \o MemberImage(p, data, k + 1)

\* return std::nullopt;
nullopt ==
  [ has_value |-> FALSE, type |-> "", member |-> "", image |-> << >>,
    parse_timestamp_ns |-> 0 ]

\* A helper run from parse: msg.type was set from data[0], the member is
\* filled, parse_timestamp_ns is the time stamp counter.
Populate(p, data, now) ==
  [ has_value |-> TRUE, type |-> data[1], member |-> p.member,
    image |-> MemberImage(p, data, 1), parse_timestamp_ns |-> now ]

\* Mutant of Parse: a frame longer than the variant is accepted.
ParseAtLeast(data, length, now) ==
  IF length < SizeofHeader THEN nullopt
  ELSE LET type == data[1]
           Try(t, p) == IF length >= SizeofMessage(t) THEN Populate(p, data, now) ELSE nullopt
       IN CASE type = "A" -> Try("A", parse_add_order)
            [] type = "E" -> Try("E", parse_execute_order)
            [] type = "C" -> Try("C", parse_execute_with_price)
            [] type = "X" -> Try("X", parse_order_cancel)
            [] type = "D" -> Try("D", parse_order_delete)
            [] type = "U" -> Try("U", parse_order_replace)
            [] type = "P" -> Try("P", parse_trade)
            [] type = "S" -> Try("S", parse_system_event)
            [] type = "R" -> Try("R", parse_stock_directory)
            [] OTHER -> nullopt

\* Mutant of Parse: an Order Cancel frame is decoded by the helper of
\* Order Delete.
ParseWrongHelper(data, length, now) ==
  IF length < SizeofHeader THEN nullopt
  ELSE LET type == data[1]
           Try(t, p) == IF length = SizeofMessage(t) THEN Populate(p, data, now) ELSE nullopt
       IN CASE type = "A" -> Try("A", parse_add_order)
            [] type = "E" -> Try("E", parse_execute_order)
            [] type = "C" -> Try("C", parse_execute_with_price)
            [] type = "X" -> Try("X", parse_order_delete)
            [] type = "D" -> Try("D", parse_order_delete)
            [] type = "U" -> Try("U", parse_order_replace)
            [] type = "P" -> Try("P", parse_trade)
            [] type = "S" -> Try("S", parse_system_event)
            [] type = "R" -> Try("R", parse_stock_directory)
            [] OTHER -> nullopt

\* std::optional<ParsedMessage> parse(const uint8_t* data, size_t length):
\* the header test, the two early tests for Add Order and Execute Order, the
\* switch over the other seven types, nullopt for the rest.
Parse(data, length, now) ==
  IF length < SizeofHeader THEN nullopt
  ELSE LET type == data[1] IN
    IF type = "A"
      THEN IF length # SizeofMessage("A") THEN nullopt
           ELSE Populate(parse_add_order, data, now)
    ELSE IF type = "E"
      THEN IF length # SizeofMessage("E") THEN nullopt
           ELSE Populate(parse_execute_order, data, now)
    ELSE CASE type = "C" /\ length = SizeofMessage("C") ->
                Populate(parse_execute_with_price, data, now)
           [] type = "X" /\ length = SizeofMessage("X") ->
                Populate(parse_order_cancel, data, now)
           [] type = "D" /\ length = SizeofMessage("D") ->
                Populate(parse_order_delete, data, now)
           [] type = "U" /\ length = SizeofMessage("U") ->
                Populate(parse_order_replace, data, now)
           [] type = "P" /\ length = SizeofMessage("P") ->
                Populate(parse_trade, data, now)
           [] type = "S" /\ length = SizeofMessage("S") ->
                Populate(parse_system_event, data, now)
           [] type = "R" /\ length = SizeofMessage("R") ->
                Populate(parse_stock_directory, data, now)
           [] OTHER -> nullopt

(* --------------------------- AsyncLogger ------------------------------- *)

\* A piece of the file or of the write buffer: `len` bytes, starting at byte
\* `off`, of the image of record `id`; id = NoItem for bytes that belong to no
\* record (padding, never-written file bytes).
Piece(id, off, len) == << id, off, len >>

Filler(len) == Piece(NoItem, 0, len)

\* Mutant of get_message_size: the Trade case is missing from the switch.
get_message_size_no_trade(type) ==
  CASE type = "A" -> SizeofMessage("A")
    [] type = "E" -> SizeofMessage("E")
    [] type = "C" -> SizeofMessage("C")
    [] type = "X" -> SizeofMessage("X")
    [] type = "D" -> SizeofMessage("D")
    [] type = "U" -> SizeofMessage("U")
    [] type = "S" -> SizeofMessage("S")
    [] type = "R" -> SizeofMessage("R")
    [] OTHER -> 0

\* Mutant of get_message_size: the default case returns the width of the
\* header.
get_message_size_default_header(type) ==
  CASE type = "A" -> SizeofMessage("A")
    [] type = "E" -> SizeofMessage("E")
    [] type = "C" -> SizeofMessage("C")
    [] type = "X" -> SizeofMessage("X")
    [] type = "D" -> SizeofMessage("D")
    [] type = "U" -> SizeofMessage("U")
    [] type = "P" -> SizeofMessage("P")
    [] type = "S" -> SizeofMessage("S")
    [] type = "R" -> SizeofMessage("R")
    [] OTHER -> SizeofHeader

\* size_t get_message_size(const ParsedMessage& msg) const: the switch over
\* msg.type, sizeof of the variant for each case, 0 by default.
get_message_size(type) ==
  CASE type = "A" -> SizeofMessage("A")
    [] type = "E" -> SizeofMessage("E")
    [] type = "C" -> SizeofMessage("C")
    [] type = "X" -> SizeofMessage("X")
    [] type = "D" -> SizeofMessage("D")
    [] type = "U" -> SizeofMessage("U")
    [] type = "P" -> SizeofMessage("P")
    [] type = "S" -> SizeofMessage("S")
    [] type = "R" -> SizeofMessage("R")
    [] OTHER -> 0

\* void serialize_message(uint8_t* dest, const ParsedMessage& msg) on a record
\* the decoder filled: the bytes memcpy puts at dest, sizeof of the variant
\* of the case msg.type selects, taken from the start of the union; no case,
\* no byte.
serialize_message(msg) ==
  IF msg.type \in SupportedTypes
    THEN [ i \in 1 .. SizeofMessage(msg.type) |-> msg.image[i] ]
    ELSE << >>

\* get_message_size(msg) for the record a producer logged.
GetMessageSize(v) == get_message_size(MsgType(v))

\* serialize_message(dest, msg): memcpy of the variant selected by msg.type;
\* nothing is copied for any other type.
SerializeMessage(dest, v) ==
  IF MsgType(v) \in SupportedTypes
    THEN Append(dest, Piece(v, 0, SizeofMessage(MsgType(v))))
    ELSE dest

\* x & ~m for a mask m = 2^k - 1.
AndNot(x, m) == x - BitAnd(x, m)

\* The outcomes of ::write: everything written, a short count, -1.
WriteOutcomes == { "ok", "short", "fail" }

\* The outcomes of open_file's system calls: all succeed, ::open fails,
\* ftruncate fails, mmap fails (the last two under MMAP only).
OpenFailures == { "open_fail", "truncate_fail", "mmap_fail" }

Min(a, b) == IF a <= b THEN a ELSE b

\* The first n bytes of a sequence of pieces.
RECURSIVE Take(_, _)
Take(f, n) ==
  IF n <= 0 \/ f = << >> THEN << >>
  ELSE IF Head(f)[3] <= n THEN << Head(f) >> \o Take(Tail(f), n - Head(f)[3])
  ELSE << Piece(Head(f)[1], Head(f)[2], n) >>

\* The members as the constructor leaves them; no file is open. Besides the
\* members: the file (content and length), whether the descriptor is open,
\* the record bytes the file has accepted, whether a system call has failed,
\* whether a record was copied to addresses outside the mapping
\* or a write was short.
SinkInit ==
  [ fd |-> -1, mmap_ptr |-> "null", mmap_size |-> 0,
    write_buffer |-> << >>, buffer_offset |-> 0, total_written |-> 0,
    file |-> << >>, file_size |-> 0,
    fd_open |-> FALSE, accepted |-> 0, io_error |-> FALSE, outside |-> FALSE,
    leaked |-> 0 ]

\* void open_file(): O_WRONLY | O_CREAT | O_TRUNC; under MMAP the file is
\* sized to the initial size and mapped. The bytes below the write offset
\* (total_written_) of a fresh mapping are the zero bytes of the new file.
\* fd_ is overwritten: a descriptor it named that is still open stays open
\* with nothing left to close it (leaked counts these), and ::open returns
\* the lowest free number.
OpenFile(s) ==
  LET held == s.leaked + (IF s.fd_open THEN 1 ELSE 0)
      opened == [s EXCEPT !.fd = 3 + held, !.fd_open = TRUE, !.file = << >>,
                          !.file_size = 0, !.leaked = held] IN
  IF write_mode = "MMAP"
    THEN [opened EXCEPT !.file_size = InitialMmapSize,
                        !.mmap_ptr = "mapped",
                        !.mmap_size = InitialMmapSize,
                        !.file = IF s.total_written > 0
                                   THEN << Filler(s.total_written) >> ELSE << >>]
    ELSE opened

\* void open_file() when a system call fails (it throws): ::open returns -1;
\* ftruncate fails after the file was created and truncated, the descriptor
\* is closed and fd_ keeps its value; mmap returns MAP_FAILED, which is
\* stored in mmap_ptr_, the file has its initial size, the descriptor is
\* closed and fd_ keeps its value.
OpenFileFails(s, o) ==
  CASE o = "open_fail" -> [s EXCEPT !.fd = -1, !.io_error = TRUE]
    [] o = "truncate_fail" ->
         [s EXCEPT !.fd = 3, !.file = << >>, !.file_size = 0, !.io_error = TRUE]
    [] o = "mmap_fail" ->
         [s EXCEPT !.fd = 3, !.file = << >>, !.file_size = InitialMmapSize,
                   !.mmap_ptr = "failed", !.io_error = TRUE]

\* Mutant of CloseFile: the file is not truncated to the write offset.
CloseFileNoTruncate(s) ==
  IF s.fd >= 0 THEN [s EXCEPT !.fd = -1, !.fd_open = FALSE] ELSE s

\* void close_file(); mmap_ptr_ keeps its value after munmap.
CloseFile(s) ==
  LET unmapped == IF write_mode = "MMAP" /\ s.mmap_ptr # "null"
                    THEN [s EXCEPT !.file_size = s.total_written]
                    ELSE s
  IN IF unmapped.fd >= 0 THEN [unmapped EXCEPT !.fd = -1, !.fd_open = FALSE]
                         ELSE unmapped

\* Mutant of Flush: the buffer is written but buffer_offset_ is not reset.
FlushKeepsBuffer(s, w) ==
  IF s.buffer_offset = 0 THEN s
  ELSE IF write_mode = "MMAP" THEN [s EXCEPT !.buffer_offset = 0]
  ELSE [s EXCEPT !.file = s.file \o s.write_buffer,
                 !.file_size = s.file_size + s.buffer_offset,
                 !.total_written = s.total_written + s.buffer_offset,
                 !.accepted = s.accepted + s.buffer_offset]

\* Mutant of Flush: under DIRECT the length is not rounded up.
FlushNoRounding(s, w) ==
  IF s.buffer_offset = 0 THEN s
  ELSE IF write_mode = "MMAP" THEN [s EXCEPT !.buffer_offset = 0]
  ELSE [s EXCEPT !.file = s.file \o s.write_buffer,
                 !.file_size = s.file_size + s.buffer_offset,
                 !.total_written = s.total_written + s.buffer_offset,
                 !.accepted = s.accepted + s.buffer_offset,
                 !.write_buffer = << >>,
                 !.buffer_offset = 0]

\* void flush(); w is the outcome of its ::write call.
Flush(s, w) ==
  IF s.buffer_offset = 0 THEN s
  ELSE IF write_mode = "MMAP" THEN [s EXCEPT !.buffer_offset = 0]
  ELSE
    LET bytes_to_write ==
          IF write_mode = "DIRECT"
            THEN AndNot(s.buffer_offset + ALIGNMENT - 1, ALIGNMENT - 1)
            ELSE s.buffer_offset
        padding == bytes_to_write - s.buffer_offset
        image == IF padding > 0 THEN Append(s.write_buffer, Filler(padding))
                                ELSE s.write_buffer
        written == CASE w = "ok" -> bytes_to_write
                     [] w = "short" -> bytes_to_write \div 2
                     [] OTHER -> -1
    IN [s EXCEPT !.file = IF written > 0 THEN s.file \o Take(image, written) ELSE @,
                 !.file_size = IF written > 0 THEN @ + written ELSE @,
                 !.total_written = IF written > 0 THEN @ + s.buffer_offset ELSE @,
                 !.accepted = IF written > 0 THEN @ + Min(written, s.buffer_offset) ELSE @,
                 !.io_error = @ \/ w # "ok",
                 !.write_buffer = << >>,
                 !.buffer_offset = 0]

\* void expand_mmap()
ExpandMmap(s) ==
  [s EXCEPT !.mmap_size = s.mmap_size * 2, !.file_size = s.mmap_size * 2]

\* The outcomes of a copy that runs past the end of the mapping (undefined
\* behaviour): the bytes land in whatever memory follows and the call goes
\* on, or the process is killed by the fault.
UbOutcomes == { "stray", "segv" }

\* serialize_message(mmap_ptr_ + total_written_, msg) would write past
\* mmap_ptr_ + mmap_size_, after the one doubling write_message may do.
CopyOutside(s, v) ==
  /\ write_mode = "MMAP"
  /\ LET m == IF s.total_written + GetMessageSize(v) > s.mmap_size THEN ExpandMmap(s) ELSE s
     IN m.total_written + GetMessageSize(v) > m.mmap_size

\* Mutant of WriteMessage: the record is copied into the buffer without the
\* capacity test.
WriteMessageNoCapacityTest(s, v, w, u) ==
  LET msg_size == GetMessageSize(v) IN
  IF write_mode = "MMAP"
    THEN [s EXCEPT !.file = SerializeMessage(s.file, v),
                   !.total_written = s.total_written + msg_size,
                   !.accepted = s.accepted + msg_size]
    ELSE [s EXCEPT !.write_buffer = SerializeMessage(s.write_buffer, v),
                   !.buffer_offset = s.buffer_offset + msg_size]

\* void write_message(const ParsedMessage& msg); w is the outcome of the
\* ::write call of its flush, if it makes one, u the outcome of a copy past
\* the end of the mapping: the part of the record inside the mapping reaches
\* the file, the rest does not.
WriteMessage(s, v, w, u) ==
  LET msg_size == GetMessageSize(v) IN
  IF write_mode = "MMAP"
    THEN LET m == IF s.total_written + msg_size > s.mmap_size THEN ExpandMmap(s) ELSE s
             inside == Min(msg_size, IF m.mmap_size > m.total_written
                                       THEN m.mmap_size - m.total_written ELSE 0)
             part == IF inside > 0 THEN Append(m.file, Piece(v, 0, inside)) ELSE m.file
         IN IF inside = msg_size
              THEN [m EXCEPT !.file = SerializeMessage(m.file, v),
                             !.total_written = m.total_written + msg_size,
                             !.accepted = m.accepted + msg_size]
            ELSE IF u = "stray"
              THEN [m EXCEPT !.file = Append(part, Filler(msg_size - inside)),
                             !.total_written = m.total_written + msg_size,
                             !.accepted = m.accepted + inside,
                             !.outside = TRUE]
              ELSE [m EXCEPT !.file = part,
                             !.accepted = m.accepted + inside,
                             !.outside = TRUE]
    ELSE LET b == IF s.buffer_offset + msg_size > BUFFER_SIZE THEN Flush(s, w) ELSE s
         IN [b EXCEPT !.write_buffer = SerializeMessage(b.write_buffer, v),
                      !.buffer_offset = b.buffer_offset + msg_size]

\* The records whose log() (try_enqueue) has returned true.
LoggedTrue == { enqOrder[p + 1] : p \in { q \in 0 .. (head - 1) : Published(q) } }

\* void start(): not running, so the file is opened, running_ is set and the
\* worker thread is launched.
Start ==
  /\ adminPc = "idle"
  /\ ~ running
  /\ starts < MaxStarts
  /\ starts' = starts + 1
  /\ sink' = OpenFile(sink)
  /\ running' = TRUE
  /\ pc' = [pc EXCEPT ![Worker] = "w_loop"]
  /\ wphase' = "loop"
  /\ UNCHANGED << qvars, pos, item, ret, hvars, write_mode, adminPc, promised, io, pvars >>

\* Mutant of StopSignal: flush() is called before the join.
StopSignalFlushes ==
  /\ adminPc = "idle"
  /\ running
  /\ running' = FALSE
  /\ adminPc' = "join"
  /\ promised' = IF Len(promised) = 0 THEN promised ELSE << LoggedTrue >>
  /\ \E w \in io \cap WriteOutcomes : sink' = Flush(sink, w)
  /\ UNCHANGED << qvars, tvars, hvars, write_mode, wphase, starts, io, pvars >>

\* void stop(), up to the join: running, so running_ is cleared.
StopSignal ==
  /\ adminPc = "idle"
  /\ running
  /\ running' = FALSE
  /\ adminPc' = "join"
  /\ promised' = IF Len(promised) = 0 THEN promised ELSE << LoggedTrue >>
  /\ UNCHANGED << qvars, tvars, hvars, write_mode, sink, wphase, starts, io, pvars >>

\* Mutant of StopJoin: close_file() without the flush().
StopJoinNoFlush ==
  /\ adminPc = "join"
  /\ pc[Worker] = "w_exit"
  /\ pc' = [pc EXCEPT ![Worker] = "off"]
  /\ sink' = CloseFile(sink)
  /\ adminPc' = "idle"
  /\ UNCHANGED << qvars, pos, item, ret, hvars, write_mode, running, wphase, starts, promised, io, pvars >>

\* void stop(), from the join on: the worker has exited; flush(); close_file().
StopJoin ==
  /\ adminPc = "join"
  /\ pc[Worker] = "w_exit"
  /\ pc' = [pc EXCEPT ![Worker] = "off"]
  /\ \E w \in io \cap WriteOutcomes : sink' = CloseFile(Flush(sink, w))
  /\ adminPc' = "idle"
  /\ UNCHANGED << qvars, pos, item, ret, hvars, write_mode, running, wphase, starts, promised, io, pvars >>

\* worker_loop: while (running_.load(acquire)); on false the drain loop starts.
WorkerLoop ==
  /\ pc[Worker] = "w_loop"
  /\ wphase' = IF running THEN "loop" ELSE "drain"
  /\ pc' = [pc EXCEPT ![Worker] = "w_call"]
  /\ UNCHANGED << qvars, pos, item, ret, hvars, write_mode, running, sink, adminPc, starts, promised, io, pvars >>

\* worker_loop: queue_.try_dequeue(msg), its first load of tail_.
WorkerCall ==
  /\ pc[Worker] = "w_call"
  /\ pos' = [pos EXCEPT ![Worker] = tail]
  /\ pc' = [pc EXCEPT ![Worker] = "d_seq"]
  /\ UNCHANGED << qvars, item, ret, hvars, logvars, pvars >>

\* worker_loop: try_dequeue returned true: write_message(msg). The locals of
\* the call and the copied-out msg are dead afterwards. A fault in the copy
\* ends the process and with it every thread.
WorkerWrite ==
  /\ pc[Worker] = "d_ret"
  /\ ret[Worker] = "true"
  /\ \E w \in io \cap WriteOutcomes, u \in UbOutcomes :
       /\ sink' = WriteMessage(sink, item[Worker], w, u)
       /\ IF CopyOutside(sink, item[Worker]) /\ u = "segv"
            THEN /\ pc' = [ t \in Threads |-> "off" ]
                 /\ ret' = [ t \in Threads |-> "none" ]
                 /\ pos' = [ t \in Threads |-> 0 ]
                 /\ item' = [ t \in Threads |-> NoItem ]
                 /\ adminPc' = "off"
            ELSE /\ pc' = [pc EXCEPT ![Worker] = IF wphase = "loop" THEN "w_loop" ELSE "w_call"]
                 /\ ret' = [ret EXCEPT ![Worker] = "none"]
                 /\ pos' = [pos EXCEPT ![Worker] = 0]
                 /\ item' = [item EXCEPT ![Worker] = NoItem]
                 /\ adminPc' = adminPc
  /\ UNCHANGED << qvars, hvars, write_mode, running, wphase, starts, promised, io, pvars >>

\* Mutant of WorkerEmpty: the flush() of the first loop is lost.
WorkerEmptyNoFlush ==
  /\ pc[Worker] = "d_ret"
  /\ ret[Worker] = "false"
  /\ sink' = sink
  /\ pc' = [pc EXCEPT ![Worker] = IF wphase = "loop" THEN "w_loop" ELSE "w_exit"]
  /\ ret' = [ret EXCEPT ![Worker] = "none"]
  /\ pos' = [pos EXCEPT ![Worker] = 0]
  /\ UNCHANGED << qvars, item, hvars, write_mode, running, wphase, adminPc, starts, promised, io, pvars >>

\* worker_loop: try_dequeue returned false: flush and yield in the first loop,
\* leave the drain loop (the thread ends) in the second.
WorkerEmpty ==
  /\ pc[Worker] = "d_ret"
  /\ ret[Worker] = "false"
  /\ \E w \in io \cap WriteOutcomes :
       sink' = IF wphase = "loop" THEN Flush(sink, w) ELSE sink
  /\ pc' = [pc EXCEPT ![Worker] = IF wphase = "loop" THEN "w_loop" ELSE "w_exit"]
  /\ ret' = [ret EXCEPT ![Worker] = "none"]
  /\ pos' = [pos EXCEPT ![Worker] = 0]
  /\ UNCHANGED << qvars, item, hvars, write_mode, running, wphase, adminPc, starts, promised, io, pvars >>

\* Mutant of StartNoop: the running_ test is lost and the file is reopened.
StartNoopReopens ==
  /\ adminPc = "idle"
  /\ running
  /\ sink' = OpenFile(sink)
  /\ adminPc' = "start_noop"
  /\ UNCHANGED << qvars, tvars, hvars, write_mode, running, wphase, starts, promised, io, pvars >>

\* void start() on a running writer: running_ is loaded and the call returns.
StartNoop ==
  /\ adminPc = "idle"
  /\ running
  /\ adminPc' = "start_noop"
  /\ UNCHANGED << qvars, tvars, hvars, write_mode, running, sink, wphase, starts, promised, io, pvars >>

\* Mutant of StartFails: running_ is stored before open_file throws.
StartFailsAfterStore(o) ==
  /\ adminPc = "idle"
  /\ ~ running
  /\ o \in io \cap OpenFailures
  /\ o = "open_fail" \/ write_mode = "MMAP"
  /\ sink' = OpenFileFails(sink, o)
  /\ running' = TRUE
  /\ adminPc' = "start_failed"
  /\ UNCHANGED << qvars, tvars, hvars, write_mode, wphase, starts, promised, io, pvars >>

\* void start() when open_file throws: the exception leaves start() before
\* running_ is stored and before the thread is created.
StartFails(o) ==
  /\ adminPc = "idle"
  /\ ~ running
  /\ o \in io \cap OpenFailures
  /\ o = "open_fail" \/ write_mode = "MMAP"
  /\ sink' = OpenFileFails(sink, o)
  /\ adminPc' = "start_failed"
  /\ UNCHANGED << qvars, tvars, hvars, write_mode, running, wphase, starts, promised, io, pvars >>

\* Mutant of StopNoop: the running_ test is lost, flush() and close_file() run.
StopNoopCloses ==
  /\ adminPc = "idle"
  /\ ~ running
  /\ \E w \in io \cap WriteOutcomes : sink' = CloseFile(Flush(sink, w))
  /\ adminPc' = "stop_noop"
  /\ UNCHANGED << qvars, tvars, hvars, write_mode, running, wphase, starts, promised, io, pvars >>

\* void stop() on a writer that is not running: running_ is loaded and the
\* call returns.
StopNoop ==
  /\ adminPc = "idle"
  /\ ~ running
  /\ adminPc' = "stop_noop"
  /\ UNCHANGED << qvars, tvars, hvars, write_mode, running, sink, wphase, starts, promised, io, pvars >>

\* ~AsyncLogger(): stop(), up to the join when the writer is running, a
\* return when it is not; then the buffer is freed and the object is gone.
Destroy ==
  /\ adminPc = "idle"
  /\ running' = FALSE
  /\ adminPc' = IF running THEN "dtor_join" ELSE "destroyed"
  /\ promised' = IF Len(promised) = 0 \/ ~ running THEN promised ELSE << LoggedTrue >>
  /\ UNCHANGED << qvars, tvars, hvars, write_mode, sink, wphase, starts, io, pvars >>

\* ~AsyncLogger(): stop() from the join on, then free(write_buffer_).
DtorJoin ==
  /\ adminPc = "dtor_join"
  /\ pc[Worker] = "w_exit"
  /\ pc' = [pc EXCEPT ![Worker] = "off"]
  /\ \E w \in io \cap WriteOutcomes : sink' = CloseFile(Flush(sink, w))
  /\ adminPc' = "destroyed"
  /\ UNCHANGED << qvars, pos, item, ret, hvars, write_mode, running, wphase, starts, promised, io, pvars >>

\* The caller of start() / stop() has the outcome of the call (a return, or
\* the exception of open_file) and goes on.
AdminReturn ==
  /\ adminPc \in { "start_noop", "start_failed", "stop_noop" }
  /\ adminPc' = "idle"
  /\ UNCHANGED << qvars, tvars, hvars, write_mode, running, sink, wphase, starts, promised, io, pvars >>

(* --------------------------- specifications ---------------------------- *)

HistoryInit ==
  /\ nextVal = 0
  /\ enqOrder = << >>
  /\ deqAt = [ p \in Positions |-> NoItem ]

ThreadInit(active) ==
  /\ pc = [ t \in Threads |-> IF t \in active THEN "idle" ELSE "off" ]
  /\ pos = [ t \in Threads |-> 0 ]
  /\ item = [ t \in Threads |-> NoItem ]
  /\ ret = [ t \in Threads |-> "none" ]

\* No protocol function is under check in the queue and writer harnesses.
NoParser ==
  /\ input = << >>
  /\ output = << >>
  /\ calls = 0

\* The writer object is not part of the queue harnesses.
NoLogger ==
  /\ write_mode = "BUFFERED"
  /\ running = FALSE
  /\ sink = SinkInit
  /\ wphase = "loop"
  /\ adminPc = "off"
  /\ starts = 0
  /\ promised = << >>
  /\ io = { "ok", "spurious" }

(* ------------- start() and stop() from several threads ----------------- *)

\* start(): if (running_.load(acquire)) return;
AdminStartCall(t) ==
  /\ pc[t] = "idle"
  /\ ~ running
  /\ starts < MaxStarts
  /\ starts' = starts + 1
  /\ pc' = [pc EXCEPT ![t] = "st_open"]
  /\ UNCHANGED << qvars, pos, item, ret, hvars, write_mode, running, sink, wphase, adminPc, promised, io, pvars >>

\* start(): open_file();
AdminStartOpen(t) ==
  /\ pc[t] = "st_open"
  /\ sink' = OpenFile(sink)
  /\ pc' = [pc EXCEPT ![t] = "st_store"]
  /\ UNCHANGED << qvars, pos, item, ret, hvars, write_mode, running, wphase, adminPc, starts, promised, io, pvars >>

\* start(): running_.store(true, release);
AdminStartStore(t) ==
  /\ pc[t] = "st_store"
  /\ running' = TRUE
  /\ pc' = [pc EXCEPT ![t] = "st_launch"]
  /\ UNCHANGED << qvars, pos, item, ret, hvars, write_mode, sink, wphase, adminPc, starts, promised, io, pvars >>

\* start(): worker_thread_ = std::thread(&AsyncLogger::worker_loop, this);
\* the move assignment to a joinable std::thread calls std::terminate, which
\* ends the process and with it every thread.
AdminStartLaunch(t) ==
  /\ pc[t] = "st_launch"
  /\ IF pc[Worker] # "off"
       THEN /\ pc' = [ u \in Threads |-> "off" ]
            /\ wphase' = wphase
       ELSE /\ pc' = [pc EXCEPT ![t] = "idle", ![Worker] = "w_loop"]
            /\ wphase' = "loop"
  /\ UNCHANGED << qvars, pos, item, ret, hvars, write_mode, running, sink, adminPc, starts, promised, io, pvars >>

\* stop(): if (!running_.load(acquire)) return;
AdminStopCall(t) ==
  /\ pc[t] = "idle"
  /\ running
  /\ pc' = [pc EXCEPT ![t] = "sp_store"]
  /\ UNCHANGED << qvars, pos, item, ret, hvars, logvars, pvars >>

\* stop(): running_.store(false, release);
AdminStopStore(t) ==
  /\ pc[t] = "sp_store"
  /\ running' = FALSE
  /\ pc' = [pc EXCEPT ![t] = "sp_joinable"]
  /\ UNCHANGED << qvars, pos, item, ret, hvars, write_mode, sink, wphase, adminPc, starts, promised, io, pvars >>

\* stop(): if (worker_thread_.joinable())
AdminStopJoinable(t) ==
  /\ pc[t] = "sp_joinable"
  /\ pc' = [pc EXCEPT ![t] = IF pc[Worker] # "off" THEN "sp_join" ELSE "sp_flush"]
  /\ UNCHANGED << qvars, pos, item, ret, hvars, logvars, pvars >>

\* The outcomes of join() on a std::thread another thread has joined since
\* joinable() was tested (a data race on worker_thread_, undefined
\* behaviour): the call returns, or it throws std::system_error out of
\* stop().
JoinOutcomes == { "returns", "throws" }

\* stop(): worker_thread_.join(); it returns when worker_loop has returned.
AdminStopJoin(t) ==
  /\ pc[t] = "sp_join"
  /\ \/ /\ pc[Worker] = "w_exit"
        /\ pc' = [pc EXCEPT ![t] = "sp_flush", ![Worker] = "off"]
     \/ /\ pc[Worker] = "off"
        /\ \E o \in JoinOutcomes :
             pc' = [pc EXCEPT ![t] = IF o = "returns" THEN "sp_flush" ELSE "idle"]
  /\ UNCHANGED << qvars, pos, item, ret, hvars, logvars, pvars >>

\* stop(): flush(); close_file();
AdminStopClose(t) ==
  /\ pc[t] = "sp_flush"
  /\ \E w \in io \cap WriteOutcomes : sink' = CloseFile(Flush(sink, w))
  /\ pc' = [pc EXCEPT ![t] = "idle"]
  /\ UNCHANGED << qvars, pos, item, ret, hvars, write_mode, running, wphase, adminPc, starts, promised, io, pvars >>

\* Two producers and two consumers around a fresh queue.
InitQ ==
  /\ QueueInit /\ HistoryInit /\ NoLogger /\ NoParser
  /\ ThreadInit(Producers \cup Consumers)
  /\ lin = << >>

\* One producer and one consumer (test_mpmc_queue_threaded).
InitSPSC ==
  /\ QueueInit /\ HistoryInit /\ NoLogger /\ NoParser
  /\ ThreadInit({ <<"producer", 1>>, <<"consumer", 1>> })
  /\ lin = << >>

\* As InitQ, with the per-call history of "full" / "empty" recorded.
InitLin ==
  /\ QueueInit /\ HistoryInit /\ NoLogger /\ NoParser
  /\ ThreadInit(Producers \cup Consumers)
  /\ lin = [ t \in Threads |-> FALSE ]

NextQ ==
  \E t \in Threads :
    \/ EnqCall(t) \/ EnqLoadSeq(t) \/ EnqCasOk(t) \/ EnqCasFail(t)
    \/ EnqWrite(t) \/ EnqPublish(t) \/ ProducerReturn(t)
    \/ DeqCall(t) \/ DeqLoadSeq(t) \/ DeqCasOk(t) \/ DeqCasFail(t)
    \/ DeqRead(t) \/ DeqPublish(t) \/ ConsumerReturn(t)

SpecQ == InitQ /\ [][NextQ]_vars

\* One producer, one consumer and a thread calling size() / empty(); lin
\* records for the observer that a queue call has been in progress since its
\* call began.
InitSize ==
  /\ QueueInit /\ HistoryInit /\ NoLogger /\ NoParser
  /\ ThreadInit({ <<"producer", 1>>, <<"consumer", 1>> } \cup Observers)
  /\ lin = [ t \in Threads |-> FALSE ]

NextSize ==
  \/ NextQ
  \/ \E t \in Observers : SizeCall(t) \/ SizeLoadTail(t) \/ SizeReturn(t)

SpecSize == InitSize /\ [][NextSize]_vars

SpecSPSC == InitSPSC /\ [][NextQ]_vars

SpecLin == InitLin /\ [][NextQ]_vars

\* Two producers and two consumers around a fresh queue, built for x86-64
\* (the only target of the sources: system_utils.hpp uses rdtsc / rdtscp and
\* itch_parser.hpp immintrin.h), where compare_exchange_weak is a
\* lock cmpxchg that fails only when the value differs.
InitX86 ==
  /\ QueueInit /\ HistoryInit /\ NoParser
  /\ ThreadInit(Producers \cup Consumers)
  /\ lin = << >>
  /\ write_mode = "BUFFERED"
  /\ running = FALSE
  /\ sink = SinkInit
  /\ wphase = "loop"
  /\ adminPc = "off"
  /\ starts = 0
  /\ promised = << >>
  /\ io = { "ok" }

\* The steps of thread t.
ThreadStep(t) ==
  \/ EnqCall(t) \/ EnqLoadSeq(t) \/ EnqCasOk(t) \/ EnqCasFail(t)
  \/ EnqWrite(t) \/ EnqPublish(t) \/ ProducerReturn(t)
  \/ DeqCall(t) \/ DeqLoadSeq(t) \/ DeqCasOk(t) \/ DeqCasFail(t)
  \/ DeqRead(t) \/ DeqPublish(t) \/ ConsumerReturn(t)

\* Every thread is scheduled again and again.
SpecX86 ==
  /\ InitX86
  /\ [][NextQ]_vars
  /\ \A t \in Producers \cup Consumers : WF_vars(ThreadStep(t))

\* An AsyncLogger in one of the three modes, producer threads calling log(),
\* one thread calling start() and stop().
InitL ==
  /\ QueueInit /\ HistoryInit /\ NoParser
  /\ ThreadInit(Producers)
  /\ lin = << >>
  /\ write_mode \in { "MMAP", "DIRECT", "BUFFERED" }
  /\ running = FALSE
  /\ sink = SinkInit
  /\ wphase = "loop"
  /\ adminPc = "idle"
  /\ starts = 0
  /\ promised = << >>
  /\ io = { "ok", "spurious" }

\* As InitL, with the records logged before each stop() recorded.
InitStop ==
  /\ QueueInit /\ HistoryInit /\ NoParser
  /\ ThreadInit(Producers)
  /\ lin = << >>
  /\ write_mode \in { "MMAP", "DIRECT", "BUFFERED" }
  /\ running = FALSE
  /\ sink = SinkInit
  /\ wphase = "loop"
  /\ adminPc = "idle"
  /\ starts = 0
  /\ promised = << {} >>
  /\ io = { "ok", "spurious" }

NextL ==
  \/ \E t \in Producers :
       \/ EnqCall(t) \/ EnqLoadSeq(t) \/ EnqCasOk(t) \/ EnqCasFail(t)
       \/ EnqWrite(t) \/ EnqPublish(t) \/ ProducerReturn(t)
  \/ DeqLoadSeq(Worker) \/ DeqCasOk(Worker) \/ DeqCasFail(Worker)
  \/ DeqRead(Worker) \/ DeqPublish(Worker)
  \/ WorkerLoop \/ WorkerCall \/ WorkerWrite \/ WorkerEmpty
  \/ Start \/ StopSignal \/ StopJoin

SpecL == InitL /\ [][NextL]_vars

SpecStop == InitStop /\ [][NextL]_vars

\* As InitL with one producer, whose second record carries a tag the writer
\* has no case for.
InitU ==
  /\ QueueInit /\ HistoryInit /\ NoParser
  /\ ThreadInit({ <<"producer", 1>> })
  /\ lin = << >>
  /\ write_mode \in { "MMAP", "DIRECT", "BUFFERED" }
  /\ running = FALSE
  /\ sink = SinkInit
  /\ wphase = "loop"
  /\ adminPc = "idle"
  /\ starts = 0
  /\ promised = << >>
  /\ io = { "ok", "spurious", "unsupported" }

SpecU == InitU /\ [][NextL]_vars

\* A writer that is started and never stopped, on x86-64 (no spurious failure
\* of the compare-and-exchange), its system calls succeeding.
InitRun ==
  /\ QueueInit /\ HistoryInit /\ NoParser
  /\ ThreadInit(Producers)
  /\ lin = << >>
  /\ write_mode \in { "MMAP", "DIRECT", "BUFFERED" }
  /\ running = FALSE
  /\ sink = SinkInit
  /\ wphase = "loop"
  /\ adminPc = "idle"
  /\ starts = 0
  /\ promised = << >>
  /\ io = { "ok" }

\* The steps of the worker thread (worker_loop and the calls it makes).
WorkerStep ==
  \/ WorkerLoop \/ WorkerCall \/ DeqLoadSeq(Worker) \/ DeqCasOk(Worker)
  \/ DeqRead(Worker) \/ DeqPublish(Worker) \/ WorkerWrite \/ WorkerEmpty

NextRun ==
  \/ \E t \in Producers :
       \/ EnqCall(t) \/ EnqLoadSeq(t) \/ EnqCasOk(t) \/ EnqCasFail(t)
       \/ EnqWrite(t) \/ EnqPublish(t) \/ ProducerReturn(t)
  \/ WorkerLoop \/ WorkerCall \/ DeqLoadSeq(Worker) \/ DeqCasOk(Worker)
  \/ DeqRead(Worker) \/ DeqPublish(Worker) \/ WorkerWrite \/ WorkerEmpty
  \/ Start

\* The worker is a thread of its own that the scheduler keeps running; the
\* producers and the caller of start() may stop at any point.
SpecRun == InitRun /\ [][NextRun]_vars /\ WF_vars(WorkerStep)

\* A writer under BUFFERED whose producer never runs out of
\* records, on x86-64, on a full disk: every write(2) fails, which
\* flush() ignores, so that the sink holds no more than the write buffer
\* however long the run.
InitDrain ==
  /\ QueueInit /\ HistoryInit /\ NoParser
  /\ ThreadInit({ <<"producer", 1>> })
  /\ lin = << >>
  /\ write_mode = "BUFFERED"
  /\ running = FALSE
  /\ sink = SinkInit
  /\ wphase = "loop"
  /\ adminPc = "idle"
  /\ starts = 0
  /\ promised = << >>
  /\ io = { "fail", "endless" }

NextDrain ==
  \/ \E t \in Producers :
       \/ EnqCall(t) \/ EnqLoadSeq(t) \/ EnqCasOk(t)
       \/ EnqWrite(t) \/ EnqPublish(t) \/ ProducerReturn(t)
  \/ WorkerLoop \/ WorkerCall \/ DeqLoadSeq(Worker) \/ DeqCasOk(Worker)
  \/ DeqRead(Worker) \/ DeqPublish(Worker) \/ WorkerWrite \/ WorkerEmpty
  \/ Start \/ StopSignal \/ StopJoin

\* The worker and the thread inside stop() are scheduled fairly; the producer
\* does what it likes.
SpecDrain ==
  InitDrain /\ [][NextDrain]_vars /\ WF_vars(WorkerStep) /\ WF_vars(StopJoin)

\* An AsyncLogger in one of the three modes, nothing logged, and two threads
\* that call start() and stop() on it.
InitAdmins ==
  /\ QueueInit /\ HistoryInit /\ NoParser
  /\ ThreadInit(Admins)
  /\ lin = << >>
  /\ write_mode \in { "MMAP", "DIRECT", "BUFFERED" }
  /\ running = FALSE
  /\ sink = SinkInit
  /\ wphase = "loop"
  /\ adminPc = "off"
  /\ starts = 0
  /\ promised = << >>
  /\ io = { "ok" }

NextAdmins ==
  \/ \E t \in Admins :
       \/ AdminStartCall(t) \/ AdminStartOpen(t) \/ AdminStartStore(t) \/ AdminStartLaunch(t)
       \/ AdminStopCall(t) \/ AdminStopStore(t) \/ AdminStopJoinable(t)
       \/ AdminStopJoin(t) \/ AdminStopClose(t)
  \/ WorkerLoop \/ WorkerCall \/ DeqLoadSeq(Worker) \/ WorkerEmpty

SpecAdmins == InitAdmins /\ [][NextAdmins]_vars

\* An AsyncLogger in one of the three modes with one producer thread; the
\* administrative thread makes every call in every state of the writer, and
\* the system calls of the writer can fail.
InitA ==
  /\ QueueInit /\ HistoryInit /\ NoParser
  /\ ThreadInit({ <<"producer", 1>> })
  /\ lin = << >>
  /\ write_mode \in { "MMAP", "DIRECT", "BUFFERED" }
  /\ running = FALSE
  /\ sink = SinkInit
  /\ wphase = "loop"
  /\ adminPc = "idle"
  /\ starts = 0
  /\ promised = << >>
  /\ io = WriteOutcomes \cup OpenFailures \cup { "spurious" }

NextA ==
  \/ \E t \in Producers :
       \/ EnqCall(t) \/ EnqLoadSeq(t) \/ EnqCasOk(t) \/ EnqCasFail(t)
       \/ EnqWrite(t) \/ EnqPublish(t) \/ ProducerReturn(t)
  \/ DeqLoadSeq(Worker) \/ DeqCasOk(Worker) \/ DeqCasFail(Worker)
  \/ DeqRead(Worker) \/ DeqPublish(Worker)
  \/ WorkerLoop \/ WorkerCall \/ WorkerWrite \/ WorkerEmpty
  \/ Start \/ StartNoop \/ (\E o \in OpenFailures : StartFails(o))
  \/ StopSignal \/ StopJoin \/ StopNoop
  \/ Destroy \/ DtorJoin \/ AdminReturn

SpecA == InitA /\ [][NextA]_vars

(* ------------------- the protocol functions on their own --------------- *)

\* No queue, no thread and no writer in the protocol harnesses.
NoQueue ==
  /\ QueueInit /\ HistoryInit /\ NoLogger
  /\ ThreadInit({})
  /\ lin = << >>

\* The first bytes tried: every MessageType and a byte that is none ('Z' of
\* test_parser_invalid_message).
FirstBytes == MessageTypes \cup { "Z" }

\* A frame of len bytes: the first byte, then bytes that vary with the
\* position (a + b * i modulo the number of byte values).
Frame(first, len, a, b) ==
  [ i \in 1 .. len |-> IF i = 1 THEN first ELSE (a + b * i) % Radix ]

Frames ==
  { Frame(first, len, a, b) :
      first \in FirstBytes, len \in 0 .. MaxFrameLen, a \in 0 .. (Radix - 1), b \in { 1, Radix - 1 } }

\* get_timestamp_ns(): two readings of the time stamp counter.
Ticks == { 1, 2 }

InitParse ==
  /\ NoQueue
  /\ input \in Frames
  /\ output = nullopt
  /\ calls = 0

\* parser.parse(data, length) on the frame.
ParseCall ==
  /\ calls = 0
  /\ \E now \in Ticks : output' = Parse(input, Len(input), now)
  /\ calls' = 1
  /\ UNCHANGED << input, qvars, tvars, hvars, logvars >>

SpecParse == InitParse /\ [][ParseCall]_vars

\* The characters of a symbol field: space and two others.
SymbolChars == { " ", "A", "Z" }

InitSymbol ==
  /\ NoQueue
  /\ input \in [ 1 .. 8 -> SymbolChars ]
  /\ output = << >>
  /\ calls = 0

\* get_stock_symbol(stock) on the field.
SymbolCall ==
  /\ calls = 0
  /\ output' = get_stock_symbol(input)
  /\ calls' = 1
  /\ UNCHANGED << input, qvars, tvars, hvars, logvars >>

SpecSymbol == InitSymbol /\ [][SymbolCall]_vars

\* The byte values a 64-bit value is made of: the least, the next, the
\* greatest; 16-bit and 32-bit values are made of every byte value.
ByteSamples == { 0, 1, Radix - 1 }

ByteValues(n) == IF n = 8 THEN ByteSamples ELSE 0 .. (Radix - 1)

InitSwap ==
  /\ NoQueue
  /\ input \in UNION { { [ bits |-> 8 * n, x |-> LoadLE(d) ] : d \in [ 1 .. n -> ByteValues(n) ] } :
                         n \in { 2, 4, 8 } }
  /\ output = 0
  /\ calls = 0

\* ntoh16 / ntoh32 / ntoh64 by the width of the value.
Ntoh(bits, x) ==
  CASE bits = 16 -> ntoh16(x)
    [] bits = 32 -> ntoh32(x)
    [] bits = 64 -> ntoh64(x)

\* The primitive applied to the value, then to its own result.
SwapCall ==
  /\ calls < 2
  /\ output' = Ntoh(input.bits, IF calls = 0 THEN input.x ELSE output)
  /\ calls' = calls + 1
  /\ UNCHANGED << input, qvars, tvars, hvars, logvars >>

SpecSwap == InitSwap /\ [][SwapCall]_vars

(* ------------------------------ properties ----------------------------- *)

IsPrefix(a, b) == Len(a) <= Len(b) /\ a = SubSeq(b, 1, Len(a))

\* The values returned so far by successful try_dequeue calls of a single
\* consumer, in the order of the calls.
DequeuedSeq == [ i \in 1 .. DeqCompleted |-> deqAt[i - 1] ]

\* The values passed so far to successful try_enqueue calls of a single
\* producer, in the order of the calls.
EnqueuedSeq == SubSeq(enqOrder, 1, EnqCompleted)

\* No call is in progress and every claimed position has been dequeued.
Drained == head = tail /\ \A t \in Threads : pc[t] \in { "idle", "off" }

\* C1: with one producer and one consumer, the values dequeued so far are a
\* prefix of the values enqueued so far, and the two sequences are equal once
\* the queue is drained.
FifoSPSC ==
  /\ IsPrefix(DequeuedSeq, EnqueuedSeq)
  /\ \A i \in 1 .. Len(DequeuedSeq) : DequeuedSeq[i] # NoItem
  /\ Drained => DequeuedSeq = EnqueuedSeq

\* C1 witness: three values went through a ring of two slots (a wrap-around)
\* and the queue is drained.
FifoSPSCWitness ==
  /\ Drained
  /\ tail > Capacity
  /\ DequeuedSeq = << 1, 2, 3 >>

\* Position p has been copied out by the consumer that claimed it.
ReadDone(p) == p < tail /\ \A t \in Threads : ~ (pc[t] = "d_read" /\ pos[t] = p)

DequeuedValues == { deqAt[p] : p \in { q \in Positions : ReadDone(q) } }

\* C2: with several producers and consumers, every value copied out was
\* successfully enqueued, no value is copied out twice, and once the producers
\* are done and the queue is drained the values dequeued are exactly the
\* values enqueued, each once.
NoLossNoDuplicate ==
  /\ \A p \in Positions : ReadDone(p) => deqAt[p] \in LoggedTrue
  /\ \A p, q \in Positions :
       (ReadDone(p) /\ ReadDone(q) /\ p # q) => deqAt[p] # deqAt[q]
  /\ Drained =>
       /\ DequeuedValues = { enqOrder[i] : i \in 1 .. Len(enqOrder) }
       /\ Cardinality(DequeuedValues) = Len(enqOrder)
       /\ Len(enqOrder) = head

\* C2 witness: every value of the run was enqueued and dequeued, the two
\* consumers having each taken part.
NoLossNoDuplicateWitness ==
  /\ Drained
  /\ head = MaxItems
  /\ Cardinality(DequeuedValues) = MaxItems

\* The image of record v is in f, whole.
FullImageIn(f, v) == \E i \in 1 .. Len(f) : f[i] = Piece(v, 0, GetMessageSize(v))

\* No byte of record v is in f.
NowhereIn(f, v) == \A i \in 1 .. Len(f) : f[i][1] # v

\* stop() was called on a running writer and has returned.
Stopped == adminPc = "idle" /\ ~ running /\ starts >= 1

\* C3: after stop() returns, the sink holds the full image of every record
\* whose log() had returned true before stop() was called (stated for the
\* first start()/stop() of the writer).
DrainMissesNothing ==
  (Stopped /\ starts = 1 /\ Len(promised) = 1) =>
    \A v \in promised[1] : FullImageIn(sink.file, v)

\* The log() call that was given record v has returned.
LogReturned(v) ==
  /\ v \in 1 .. nextVal
  /\ \A t \in Producers : ~ (pc[t] \in EnqInCall /\ item[t] = v)

\* C4: after stop() has returned, every log() call that has returned either
\* returned false with no byte of the record in the sink, or returned true
\* with the full image of the record in the sink.
LogAllOrNothing ==
  Stopped =>
    \A v \in 1 .. nextVal :
      LogReturned(v) =>
        \/ v \notin LoggedTrue /\ NowhereIn(sink.file, v)
        \/ v \in LoggedTrue /\ FullImageIn(sink.file, v)

\* C5: head - tail stays within 0 .. Capacity; as long as nothing has been
\* dequeued, a try_enqueue returns false exactly at position Capacity, that
\* is after Capacity successful calls.
CapacityBound ==
  /\ 0 <= head - tail
  /\ head - tail <= Capacity
  /\ \A t \in Producers :
       (pc[t] = "e_ret" /\ tail = 0) => (ret[t] = "false" <=> pos[t] = Capacity)

\* C5 witness: nothing dequeued, Capacity values enqueued, and the next
\* try_enqueue has returned false.
CapacityBoundWitness ==
  /\ tail = 0
  /\ head = Capacity
  /\ EnqCompleted = Capacity
  /\ \E t \in Producers : pc[t] = "e_ret" /\ ret[t] = "false"

\* C6: a try_enqueue that returns false found the queue full at some moment
\* of the call (Capacity items enqueued and not dequeued, by claims or by
\* completed calls).
EnqueueFalseOnlyWhenFull ==
  \A t \in Producers : (pc[t] = "e_ret" /\ ret[t] = "false") => lin[t]

\* C7: a try_dequeue that returns false found the queue empty at some moment
\* of the call (no item whose try_enqueue had returned true was waiting).
DequeueFalseOnlyWhenEmpty ==
  \A t \in Consumers : (pc[t] = "d_ret" /\ ret[t] = "false") => lin[t]

\* C8: the consumer that moved tail from p to p+1 copies out the item of the
\* producer that moved head from p to p+1, and returns it.
GlobalFifo ==
  /\ \A p \in Positions :
       ReadDone(p) => (p < Len(enqOrder) /\ deqAt[p] = enqOrder[p + 1])
  /\ \A t \in Threads :
       (pc[t] = "d_publish" \/ (pc[t] = "d_ret" /\ ret[t] = "true")) =>
         (pos[t] < Len(enqOrder) /\ item[t] = enqOrder[pos[t] + 1])

\* C8 witness: position 1 was copied out before position 0 (two consumers
\* finishing out of order), each with the item of its own position.
GlobalFifoWitness ==
  /\ tail = 2
  /\ ReadDone(1)
  /\ ~ ReadDone(0)
  /\ deqAt[1] = enqOrder[2]
  /\ enqOrder[1] = 2

\* The threads that own slot i: between their claim and their publication.
SlotOwners(i) == { t \in EnqInFlight \cup DeqInFlight : Index(pos[t]) = i }

\* C9: a slot has at most one owner between a claim and the matching
\* publication (no producer writes it while a consumer reads it, no two
\* producers write it, no two consumers read it); it is read only once
\* sequence p+1 is published and written only once sequence p is (p+C of the
\* previous lap).
NoTornAccess ==
  /\ \A i \in Slots : Cardinality(SlotOwners(i)) <= 1
  /\ \A t \in Threads : pc[t] = "d_read" => sequences[Index(pos[t])] = pos[t] + 1
  /\ \A t \in Threads : pc[t] = "e_write" => sequences[Index(pos[t])] = pos[t]

\* C9 witness: a producer is writing a slot on its second lap while a
\* consumer is copying out of the other slot.
NoTornAccessWitness ==
  \E t, u \in Threads :
    /\ pc[t] = "e_write" /\ pos[t] >= Capacity
    /\ pc[u] = "d_read"

\* The record ids of the images in f, in file order.
RECURSIVE RecordIds(_)
RecordIds(f) ==
  IF f = << >> THEN << >>
  ELSE IF Head(f)[1] = NoItem THEN RecordIds(Tail(f))
  ELSE << Head(f)[1] >> \o RecordIds(Tail(f))

\* a is b[k+1 .. k+Len(a)]
IsSegmentAt(a, b, k) == k + Len(a) <= Len(b) /\ a = SubSeq(b, k + 1, k + Len(a))

\* C10: the record images in the sink, followed by those still in the write
\* buffer, are in the order of the claims on head, with no gap: a contiguous
\* run of enqOrder, which starts at its first record until the file is
\* reopened.
SinkOrder ==
  LET ids == RecordIds(sink.file \o sink.write_buffer) IN
    /\ \E k \in 0 .. Len(enqOrder) : IsSegmentAt(ids, enqOrder, k)
    /\ starts <= 1 => IsPrefix(ids, enqOrder)

\* C10 witness: the producer that called log() second claimed head first, and
\* the file holds both records in claim order.
SinkOrderWitness ==
  /\ Len(enqOrder) >= 2
  /\ enqOrder[1] = 2
  /\ enqOrder[2] = 1
  /\ RecordIds(sink.file) = << 2, 1 >>

\* The step in which a stop() that found the writer running returns (from
\* stop() itself or from the destructor).
StopReturns == adminPc \in { "join", "dtor_join" } /\ adminPc' \in { "idle", "destroyed" }

\* What a call of start() or stop() without effect leaves alone: everything
\* but the position of the calling thread.
WriterFrame == << qvars, tvars, hvars, write_mode, running, sink, wphase, starts >>

StopIdempotent ==
  [][ (adminPc = "idle" /\ ~ running /\ adminPc' \in { "stop_noop", "destroyed" })
        => UNCHANGED WriterFrame ]_vars

\* C12 witness: stop() has returned without effect on a writer that had been
\* started and stopped with a record written.
StopIdempotentWitness ==
  /\ adminPc = "stop_noop"
  /\ starts >= 1
  /\ sink.total_written > 0
  /\ sink.file # << >>

\* C13: a start() on a running writer changes nothing: the file is not
\* reopened or truncated, no worker is launched, queue, buffer and
\* total_written_ are as they were.
StartIdempotent ==
  [][ (adminPc = "idle" /\ running /\ adminPc' = "start_noop")
        => UNCHANGED WriterFrame ]_vars

\* C13 witness: start() has returned without effect on a running writer with
\* bytes in the file, a record in the write buffer and one in the queue.
StartIdempotentWitness ==
  /\ adminPc = "start_noop"
  /\ running
  /\ sink.file # << >>
  /\ sink.write_buffer # << >>
  /\ head > tail

\* C14: when start() has failed (open_file threw) the writer is not running
\* and has no worker thread; the failing call touched neither the queue nor
\* the worker nor the count of successful starts.
StartFailureLeavesStopped ==
  [][ (adminPc = "idle" /\ adminPc' = "start_failed") =>
        /\ ~ running'
        /\ pc'[Worker] = "off"
        /\ UNCHANGED << qvars, tvars, hvars, write_mode, running, wphase, starts >>
    ]_vars

\* C14 witness: on a writer that had run and been stopped, a start() has
\* failed in mmap: MAP_FAILED is in mmap_ptr_, the file was recreated.
StartFailureWitness ==
  /\ adminPc = "start_failed"
  /\ starts = 1
  /\ sink.mmap_ptr = "failed"
  /\ sink.total_written > 0
  /\ sink.file = << >>

\* C15: total_written_ equals the record bytes the file has accepted (copied
\* into the mapping, or taken by a ::write call), in every state.
TotalWrittenExact == sink.total_written = sink.accepted

\* The width the claim gives for record v: 36 bytes for an Add Order, 44 for
\* a Trade.
ClaimedWidth(v) == IF MsgType(v) = "A" THEN 36 ELSE 44

RECURSIVE ClaimedTotal(_)
ClaimedTotal(n) == IF n = 0 THEN 0 ELSE ClaimedWidth(n) + ClaimedTotal(n - 1)

\* stop() has returned and nothing has touched the file since.
AfterStop == Stopped /\ pc[Worker] = "off" /\ sink.fd = -1

\* C16: under BUFFERED, after start(), N log() calls that all returned true
\* and stop(), without I/O failure, the file length and total_written_ are
\* the sum of the claimed widths of the N records (36 per Add Order, 44 per
\* Trade).
BufferedFileLength ==
  ( /\ write_mode = "BUFFERED"
    /\ AfterStop
    /\ starts = 1
    /\ ~ sink.io_error
    /\ nextVal >= 1
    /\ Drained
    /\ LoggedTrue = 1 .. nextVal )
  => /\ sink.file_size = ClaimedTotal(nextVal)
     /\ sink.total_written = ClaimedTotal(nextVal)

\* The sum of the widths of the records the worker has dequeued.
RECURSIVE WrittenWidths(_)
WrittenWidths(n) == IF n = 0 THEN 0 ELSE GetMessageSize(deqAt[n - 1]) + WrittenWidths(n - 1)

\* C17: under MMAP, when stop() returns the file length is total_written_,
\* which is the sum of the widths of the records written since construction,
\* and not the mapped size.
MmapLengthIsOffset ==
  [][ (StopReturns /\ write_mode = "MMAP") =>
        /\ sink'.file_size = sink'.total_written
        /\ sink'.total_written = WrittenWidths(tail')
    ]_vars

\* C17 witness: after stop(), three records written, the mapping grown twice.
MmapLengthWitness ==
  /\ write_mode = "MMAP"
  /\ AfterStop
  /\ starts = 1
  /\ sink.mmap_size = 4 * InitialMmapSize
  /\ sink.file_size = GetMessageSize(1) + GetMessageSize(2) + GetMessageSize(3)
  /\ sink.file_size < sink.mmap_size

\* f[i] is the whole image of a record.
IsImage(f, i) == f[i][1] # NoItem /\ f[i][2] = 0 /\ f[i][3] = GetMessageSize(f[i][1])

\* C18: after stop() (no I/O failure), the file is the images of the written
\* records one after the other; under DIRECT a filler may follow the last
\* image, making the length a multiple of ALIGNMENT.
BareConcatenation ==
  (AfterStop /\ ~ sink.io_error) =>
    LET f == sink.file IN
      /\ \A i \in 1 .. (Len(f) - 1) : IsImage(f, i)
      /\ Len(f) >= 1 =>
           \/ IsImage(f, Len(f))
           \/ write_mode = "DIRECT" /\ sink.file_size % ALIGNMENT = 0

\* C19: under DIRECT every write has the length of the buffer content
\* rounded up to ALIGNMENT, a multiple of ALIGNMENT that is at most
\* BUFFER_SIZE, and total_written_ grows by the unrounded length (writes
\* that succeed in full).
DirectWritesAligned ==
  [][ (write_mode = "DIRECT" /\ sink'.file_size > sink.file_size /\ ~ sink'.io_error) =>
        LET d == sink'.file_size - sink.file_size IN
          /\ d % ALIGNMENT = 0
          /\ d <= BUFFER_SIZE
          /\ d - sink.buffer_offset >= 0
          /\ d - sink.buffer_offset < ALIGNMENT
          /\ sink'.total_written - sink.total_written = sink.buffer_offset
    ]_vars

\* C19 witness: two records (84 bytes) went out in one write of BUFFER_SIZE
\* bytes.
DirectWritesWitness ==
  /\ write_mode = "DIRECT"
  /\ ~ sink.io_error
  /\ RecordIds(sink.file) = << 1, 2 >>
  /\ Len(sink.file) = 3
  /\ sink.file_size = BUFFER_SIZE
  /\ sink.total_written = GetMessageSize(1) + GetMessageSize(2)

\* C20: a call takes the "another thread is ahead" branch only when the
\* index has moved since the call read it (a claim by another call of the
\* same kind), its compare-and-exchange fails only when the index has moved,
\* and every call that has started returns.
CallsTerminate ==
  /\ [](\A t \in Producers \cup Consumers :
          /\ (pc[t] = "e_seq" /\ sequences[Index(pos[t])] > pos[t]) => head > pos[t]
          /\ (pc[t] = "d_seq" /\ sequences[Index(pos[t])] > pos[t] + 1) => tail > pos[t])
  /\ [][\A t \in Producers \cup Consumers :
          /\ (pc[t] = "e_cas" /\ pc'[t] = "e_seq") => (head > pos[t] /\ pos'[t] = head)
          /\ (pc[t] = "d_cas" /\ pc'[t] = "d_seq") => (tail > pos[t] /\ pos'[t] = tail)
       ]_vars
  /\ \A t \in Producers \cup Consumers :
       (pc[t] \in EnqInCall \cup DeqInCall) ~> (pc[t] \in { "e_ret", "d_ret" })

\* C20 witness: a producer and a consumer are each about to fail their
\* compare-and-exchange, the position they read having been claimed by the
\* other producer, resp. the other consumer.
CallsTerminateWitness ==
  /\ \E t, u \in Producers :
       /\ pc[t] = "e_cas" /\ pc[u] \in { "e_write", "e_publish" } /\ pos[t] = pos[u]
  /\ \E t, u \in Consumers :
       /\ pc[t] = "d_cas" /\ pc[u] \in { "d_read", "d_publish" } /\ pos[t] = pos[u]

\* C29: each sequence number S[i] is congruent to i or to i+1 modulo
\* Capacity and never decreases. S[i] = p with p congruent to i: slot i is
\* free for position p (p is unclaimed or its producer has not published,
\* and the item of the lap before is dequeued). S[i] = p+1: slot i holds the
\* published item of position p, not yet released by a consumer.
SequenceProtocol ==
  /\ [](\A i \in Slots :
          LET s == sequences[i] IN
            /\ s % Capacity = i \/ (s - 1) % Capacity = i
            /\ s % Capacity = i =>
                 /\ s >= head \/ \E t \in EnqInFlight : pos[t] = s
                 /\ s - Capacity < tail
                 /\ \A t \in DeqInFlight : pos[t] # s - Capacity
            /\ (s % Capacity # i) =>
                 /\ Published(s - 1)
                 /\ buffer[i] = enqOrder[s]
                 /\ s - 1 >= tail \/ \E t \in DeqInFlight : pos[t] = s - 1)
  /\ [][\A i \in Slots : sequences'[i] >= sequences[i]]_vars

\* C29 witness: slot 0 has been through a full lap and is free for position
\* Capacity, slot 1 holds the item of position 1.
SequenceProtocolWitness ==
  /\ sequences[0] = Capacity
  /\ sequences[1] = 2
  /\ head = 2
  /\ tail = 1
  /\ DeqInFlight = {}

\* C21: a size() call since whose start no try_enqueue and no try_dequeue has
\* been in progress returns head_ - tail_, the number of items enqueued and not yet
\* dequeued, and empty() is true exactly when that number is 0.
SizeWhenQuiescent ==
  \A o \in Observers :
    (pc[o] = "s_ret" /\ ~ lin[o]) =>
      /\ item[o] = head - tail
      /\ item[o] = Len(enqOrder) - Cardinality({ p \in Positions : deqAt[p] # NoItem })
      /\ (ret[o] = "true") <=> (head - tail = 0)

\* C21 witness: size() returned 1 on a quiescent queue after two enqueues and
\* one dequeue.
SizeWhenQuiescentWitness ==
  \E o \in Observers :
    /\ pc[o] = "s_ret" /\ ~ lin[o]
    /\ head = 2 /\ tail = 1
    /\ item[o] = 1 /\ ret[o] = "false"

\* C30: under MMAP every record copy lies inside the current mapping
\* (total_written_ + width <= mmap_size_ at the time of the copy).
CopiesInsideMapping == write_mode = "MMAP" => ~ sink.outside

\* C30: the same for a writer that has been started once.
CopiesInsideFirstMapping == (write_mode = "MMAP" /\ starts <= 1) => ~ sink.outside

\* C22: parse returns a populated record exactly when the first byte is one
\* of the nine supported types and length is the sizeof of that type's
\* struct; it returns nullopt for every other first byte at every length and
\* for a supported type at every other length.
PopulatedIffTagAndWidth ==
  calls = 1 =>
    (output.has_value <=>
       /\ Len(input) >= 1
       /\ input[1] \in SupportedTypes
       /\ Len(input) = SizeofMessage(input[1]))

\* C22 witness: a Stock Directory frame of its declared width was decoded.
PopulatedWitness ==
  /\ calls = 1
  /\ output.has_value
  /\ input[1] = "R"
  /\ Len(input) = SizeofMessage("R")

\* C23: parse returns nullopt for every frame shorter than 15 bytes.
ShortFrameAbsent == (calls = 1 /\ Len(input) < 15) => ~ output.has_value

\* The width the claim gives for each type.
ClaimedFrameWidth(type) ==
  CASE type = "A" -> 36 [] type = "E" -> 31 [] type = "C" -> 36
    [] type = "X" -> 23 [] type = "D" -> 19 [] type = "U" -> 35
    [] type = "P" -> 44 [] type = "S" -> 12 [] type = "R" -> 39

\* C24: the header is 15 bytes and a decoded frame of type T has the width
\* A=36, E=31, C=36, X=23, D=19, U=35, P=44, S=12, R=39.
ClaimedWidths ==
  (calls = 1 /\ output.has_value) =>
    /\ OffsetOf(StructFields(output.type), Len(HeaderFields) + 1) = 15
    /\ Len(input) = ClaimedFrameWidth(output.type)

\* The unsigned value of the bytes b read most significant byte first.
RECURSIVE LoadBE(_)
LoadBE(b) ==
  IF Len(b) = 0 THEN 0 ELSE b[1] * Radix ^ (Len(b) - 1) + LoadBE(SubSeq(b, 2, Len(b)))

NumericTypes == { "uint16_t", "uint32_t", "uint64_t" }

\* The byte swap applied to every 16/32/64-bit member of a struct image.
RECURSIVE SwapNumeric(_, _, _)
SwapNumeric(img, fields, k) ==
  IF k > Len(fields) THEN << >>
  ELSE (IF fields[k][2] \in NumericTypes
          THEN StoreLE(Bswap(LoadLE(FieldBytes(img, fields, k)), TypeWidth(fields[k][2])),
                       TypeWidth(fields[k][2]))
          ELSE FieldBytes(img, fields, k))
       \o SwapNumeric(img, fields, k + 1)

\* C25: in a decoded record each 16/32/64-bit member holds the big-endian
\* value of its frame bytes, each symbol and single-byte member is the frame
\* bytes unchanged, and swapping every numeric member of the record's image
\* gives the frame back byte for byte.
RoundTrip ==
  (calls = 1 /\ output.has_value) =>
    LET fields == StructFields(output.type) IN
      /\ Len(output.image) = Len(input)
      /\ \A k \in 1 .. Len(fields) :
           IF fields[k][2] \in NumericTypes
             THEN LoadLE(FieldBytes(output.image, fields, k)) = LoadBE(FieldBytes(input, fields, k))
             ELSE FieldBytes(output.image, fields, k) = FieldBytes(input, fields, k)
      /\ SwapNumeric(output.image, fields, 1) = input

\* C25 witness: a decoded Trade whose match_number bytes differ from their
\* reversal.
RoundTripWitness ==
  /\ calls = 1
  /\ output.has_value
  /\ output.type = "P"
  /\ LoadLE(FieldBytes(input, StructFields("P"), 10)) # LoadBE(FieldBytes(input, StructFields("P"), 10))
  /\ LoadLE(FieldBytes(output.image, StructFields("P"), 10)) = LoadBE(FieldBytes(input, StructFields("P"), 10))

\* C26: the type of a returned record is the frame's first byte and the
\* message_type of the header of the member that was filled, and that member
\* is the one a reader takes for the type.
TagAgreement ==
  (calls = 1 /\ output.has_value) =>
    /\ output.type = input[1]
    /\ output.image[1] = output.type
    /\ output.member = UnionMember(output.type)
    /\ Len(output.image) = SizeofMessage(output.type)

\* C26 witness: an Order Cancel frame gave a record of type X with the
\* order_cancel member filled.
TagAgreementWitness ==
  /\ calls = 1
  /\ output.has_value
  /\ input[1] = "X"
  /\ output.type = "X"
  /\ output.member = "order_cancel"

\* C27: get_stock_symbol returns the prefix of length n of the field, n the
\* largest value with byte n-1 not a space (0 if all eight are spaces).
SymbolIsTrimmedPrefix ==
  calls = 1 =>
    LET keep == { k \in 0 .. 8 : k = 0 \/ input[k] # " " }
        n == CHOOSE k \in keep : \A j \in keep : j <= k
    IN output = [ i \in 1 .. n |-> input[i] ]

\* C27 witness: a space inside the symbol is kept, the trailing ones are not.
SymbolWitness ==
  /\ calls = 1
  /\ input = << "A", " ", "Z", " ", " ", " ", " ", " " >>
  /\ output = << "A", " ", "Z" >>

\* The sequence b in reverse order.
Reverse(b) == [ i \in 1 .. Len(b) |-> b[Len(b) + 1 - i] ]

\* C28: one swap of a w-bit value reverses the order of its bytes and a
\* second swap gives the value back, for w = 16, 32, 64.
SwapInvolution ==
  /\ calls = 1 =>
       StoreLE(output, input.bits \div 8) = Reverse(StoreLE(input.x, input.bits \div 8))
  /\ calls = 2 => output = input.x

\* C28 witness: the 32-bit value with bytes 0, 1, 1 and the greatest byte was
\* swapped twice.
SwapWitness ==
  /\ calls = 2
  /\ input.bits = 32
  /\ StoreLE(input.x, 4) = << 0, 1, 1, Radix - 1 >>
  /\ output = input.x

\* C36: whatever producers and consumers do during the call, the value
\* size() returns lies between 0 and Capacity.
SizeWithinCapacity ==
  \A o \in Observers : pc[o] = "s_ret" => item[o] \in 0 .. Capacity

\* C38: a try_enqueue that returns false has changed neither head_, tail_,
\* a sequence number nor a slot, and a try_dequeue that returns false has
\* changed none of them and not its out parameter: "false" is returned from
\* the load of the sequence number only, the steps of a call before its
\* compare-exchange succeeds change nothing shared, and a call never comes
\* back to them once it has.
FailedCallFrame ==
  [][ \A t \in Threads :
        /\ (pc'[t] = "e_ret" /\ pc[t] # "e_ret" /\ ret'[t] = "false") =>
             pc[t] = "e_seq" /\ UNCHANGED qvars
        /\ (pc'[t] = "d_ret" /\ pc[t] # "d_ret" /\ ret'[t] = "false") =>
             pc[t] = "d_seq" /\ UNCHANGED qvars /\ item'[t] = item[t] /\ item[t] = NoItem
        /\ (pc'[t] \in { "e_seq", "e_cas" } /\ << pc'[t], pos'[t] >> # << pc[t], pos[t] >>) =>
             pc[t] \in { "idle", "e_seq", "e_cas" } /\ UNCHANGED qvars
        /\ (pc'[t] \in { "d_seq", "d_cas" } /\ << pc'[t], pos'[t] >> # << pc[t], pos[t] >>) =>
             pc[t] \in { "idle", "d_seq", "d_cas" } /\ UNCHANGED qvars /\ item'[t] = item[t]
    ]_vars

\* C38 witness: a try_enqueue has returned false on the full queue while a
\* try_dequeue that returned false earlier has not been taken up by its
\* caller; the queue holds the Capacity items enqueued before.
FailedCallWitness ==
  /\ \E t \in Producers : pc[t] = "e_ret" /\ ret[t] = "false"
  /\ \E t \in Consumers : pc[t] = "d_ret" /\ ret[t] = "false" /\ item[t] = NoItem
  /\ head - tail = Capacity
  /\ \A p \in 0 .. (Capacity - 1) : Published(p) /\ buffer[Index(p)] = enqOrder[p + 1]

\* The number of bytes in a sequence of pieces.
RECURSIVE Bytes(_)
Bytes(f) == IF f = << >> THEN 0 ELSE Head(f)[3] + Bytes(Tail(f))

\* C31: under BUFFERED and DIRECT the accumulated length never exceeds
\* BUFFER_SIZE, also when rounded up to ALIGNMENT; the buffer holds whole
\* record images only and no write continues a record begun by an earlier
\* write; a record that would not fit is copied to offset 0 after a flush.
BufferNeverOverrun ==
  /\ [](write_mode # "MMAP" =>
          /\ sink.buffer_offset <= BUFFER_SIZE
          /\ AndNot(sink.buffer_offset + ALIGNMENT - 1, ALIGNMENT - 1) <= BUFFER_SIZE
          /\ sink.buffer_offset = Bytes(sink.write_buffer)
          /\ \A i \in 1 .. Len(sink.write_buffer) : IsImage(sink.write_buffer, i)
          /\ \A i \in 1 .. Len(sink.file) : sink.file[i][2] = 0)
  /\ [][ ( /\ write_mode # "MMAP"
           /\ pc[Worker] = "d_ret" /\ ret[Worker] = "true" /\ pc'[Worker] # "d_ret"
           /\ sink.buffer_offset + GetMessageSize(item[Worker]) > BUFFER_SIZE )
         => /\ sink'.buffer_offset = GetMessageSize(item[Worker])
            /\ sink'.write_buffer = << Piece(item[Worker], 0, GetMessageSize(item[Worker])) >>
            /\ sink'.file_size - sink.file_size <= BUFFER_SIZE
       ]_vars

\* C31 witness: under DIRECT the third record did not fit behind the first
\* two; they were written as one block of BUFFER_SIZE bytes and the third is
\* alone in the buffer.
BufferNeverOverrunWitness ==
  /\ write_mode = "DIRECT"
  /\ RecordIds(sink.file) = << 1, 2 >>
  /\ sink.file_size = BUFFER_SIZE
  /\ sink.write_buffer = << Piece(3, 0, GetMessageSize(3)) >>
  /\ sink.buffer_offset = GetMessageSize(3)

\* The sink state: descriptor, mapping, accumulation buffer and its length,
\* and the file behind them.
SinkState(s) ==
  << s.fd, s.mmap_ptr, s.mmap_size, s.write_buffer, s.buffer_offset, s.file, s.file_size >>

\* The worker thread has been launched and has not left worker_loop.
WorkerAlive == pc[Worker] \notin { "off", "w_exit" }

\* C34: from start() until the worker has exited, every step that changes the
\* sink state is a step of the worker; the thread calling start() / stop()
\* changes it only while no worker is alive (stop(): after the join).
SinkOwnedByWorker ==
  [][ SinkState(sink') # SinkState(sink) =>
        IF WorkerAlive
          THEN /\ pc[Worker] = "d_ret"
               /\ pc'[Worker] # "d_ret"
               /\ adminPc' = adminPc \/ adminPc' = "off"
               /\ running' = running
          ELSE /\ pc[Worker] = "off" \/ (pc[Worker] = "w_exit" /\ pc'[Worker] = "off")
               /\ \A t \in Producers : pc'[t] = pc[t]
    ]_vars

\* C34 witness: stop() is waiting in the join while the worker, in its drain
\* loop, has just put a record into the buffer.
SinkOwnedWitness ==
  /\ adminPc = "join"
  /\ wphase = "drain"
  /\ pc[Worker] = "w_call"
  /\ write_mode = "BUFFERED"
  /\ sink.buffer_offset > 0
  /\ sink.fd_open

\* The sum of the widths of the records whose images are in f.
RECURSIVE WidthsOf(_)
WidthsOf(ids) == IF ids = << >> THEN 0 ELSE GetMessageSize(Head(ids)) + WidthsOf(Tail(ids))

\* C37: after start(), stop(), start(), stop() (no I/O failure), under MMAP
\* and BUFFERED total_written_ and the file length are the sum of the widths
\* of the records written since the second start(), the first of which is at
\* offset 0 of the file.
RestartStartsAfresh ==
  ( /\ write_mode \in { "MMAP", "BUFFERED" }
    /\ AfterStop
    /\ starts = 2
    /\ ~ sink.io_error
    /\ ~ sink.outside )
  => /\ sink.total_written = WidthsOf(RecordIds(sink.file))
     /\ sink.file_size = WidthsOf(RecordIds(sink.file))
     /\ Len(sink.file) >= 1 => IsImage(sink.file, 1)


\* C39: for each of the nine supported tags the width of the writer's table is
\* the one frame length the decoder accepts for the tag; the image serialised
\* for a decoded record is as long as its frame and begins with the tag, so a
\* reader that advances by the width of the first byte stays on boundaries.
WriterWidthIsFrameLength ==
  /\ ( calls = 1 /\ Len(input) >= 1 /\ input[1] \in SupportedTypes )
       => ( output.has_value <=> Len(input) = get_message_size(input[1]) )
  /\ ( calls = 1 /\ output.has_value )
       => /\ output.type \in SupportedTypes
          /\ get_message_size(output.type) = Len(input)
          /\ Len(serialize_message(output)) = Len(input)
          /\ serialize_message(output)[1] = input[1]
          /\ get_message_size(serialize_message(output)[1]) = Len(serialize_message(output))

WriterWidthWitness ==
  /\ calls = 1
  /\ output.has_value
  /\ output.type = "P"
  /\ Len(input) = SizeofMessage("P")
  /\ Len(serialize_message(output)) = SizeofMessage("P")


\* The last piece of a sequence of pieces.
LastPiece(f) == f[Len(f)]

\* C40: a record whose tag is not one of the nine has width 0 and the worker's
\* write of it copies nothing: the file, the write buffer, buffer_offset_ and
\* total_written_ are as before, and the mapping too when the write offset is
\* inside it; a record of a supported tag, whether or not it follows such a
\* record, is appended whole and the offset advances by its width.
UnsupportedRecordCopiesNothing ==
  [][ ( pc[Worker] = "d_ret" /\ ret[Worker] = "true" /\ pc'[Worker] # "d_ret" ) =>
        LET v == item[Worker]
            width == GetMessageSize(v)
        IN IF MsgType(v) \notin SupportedTypes
             THEN /\ width = 0
                  /\ pc'[Worker] # "off"
                  /\ sink'.file = sink.file
                  /\ sink'.write_buffer = sink.write_buffer
                  /\ sink'.buffer_offset = sink.buffer_offset
                  /\ sink'.total_written = sink.total_written
                  /\ sink'.accepted = sink.accepted
                  /\ sink.total_written <= sink.mmap_size
                       => ( sink'.mmap_size = sink.mmap_size /\ sink'.file_size = sink.file_size )
             ELSE /\ width = SizeofMessage(MsgType(v))
                  /\ ( write_mode = "MMAP" /\ ~ CopyOutside(sink, v) )
                       => /\ sink'.total_written = sink.total_written + width
                          /\ LastPiece(sink'.file) = Piece(v, 0, width)
                  /\ write_mode # "MMAP"
                       => /\ sink'.buffer_offset =
                               ( IF sink.buffer_offset + width > BUFFER_SIZE
                                   THEN 0 ELSE sink.buffer_offset ) + width
                          /\ LastPiece(sink'.write_buffer) = Piece(v, 0, width)
    ]_vars

\* The record of the unknown tag was written between the first and the third,
\* and the sink holds the images of the first and the third only.
UnsupportedRecordWitness ==
  /\ "unsupported" \in io
  /\ tail = 3
  /\ MsgType(deqAt[1]) \notin SupportedTypes
  /\ pc[Worker] \in { "w_loop", "w_call" }
  /\ RecordIds(sink.file \o sink.write_buffer) = << 1, 3 >>
  /\ sink.total_written + sink.buffer_offset = 2 * SizeofMessage("A")


\* The descriptors of the sink that are open.
OpenDescriptors == sink.leaked + (IF sink.fd_open THEN 1 ELSE 0)

\* C35: whatever the interleaving of the start() and stop() calls of several
\* threads, at most one descriptor of the sink is open at any time.
OneSinkDescriptor == OpenDescriptors <= 1


\* The sum of the widths of the first n records that entered the queue.
RECURSIVE LoggedWidths(_)
LoggedWidths(n) == IF n = 0 THEN 0 ELSE GetMessageSize(enqOrder[n]) + LoggedWidths(n - 1)

\* No producer is inside log().
ProducersQuiet == \A t \in Producers : pc[t] = "idle"

\* Every record that entered the queue was dequeued and is in the sink.
AllWritten ==
  /\ tail = head
  /\ sink.buffer_offset = 0
  /\ sink.total_written = LoggedWidths(head)

\* C32: while the writer runs and stop() is not called, if the producers stop
\* logging then, the worker being scheduled fairly, every enqueued record is
\* eventually dequeued and the partial buffer flushed: total_written_ comes
\* to the sum of the widths of the records logged, and stays there.
QuietProducersAllWritten ==
  <>[](running /\ ProducersQuiet) => <>[]AllWritten

\* Three records were logged and are all written, the buffer flushed.
AllWrittenWitness ==
  /\ running
  /\ ProducersQuiet
  /\ head = MaxItems
  /\ AllWritten
  /\ sink.total_written = 2 * SizeofMessage("A") + SizeofMessage("P")


\* C33: after stop() is called on a running writer the worker sees the cleared
\* flag, drains and exits, and stop() returns, the worker and the caller of
\* stop() being scheduled fairly, whatever the producers do meanwhile.
StopEventuallyReturns == (adminPc = "join") ~> (adminPc = "idle")

====
